---- MODULE Spec2Model ----
(***************************************************************************)
(* Verification model of the control-plane core of ovn-kubernetes:         *)
(*   - the NAD controller (networkAttachDefController), which maps         *)
(*     NetworkAttachmentDefinition keys to networks and tracks one primary *)
(*     NAD per namespace (nadController.syncNAD,                           *)
(*     nadController.GetActiveNetworkForNamespace);                        *)
(*   - the load-balancer reconciler (loadbalancer.EnsureLBs).              *)
(* Records list their fields in one fixed order throughout the module.    *)
(***************************************************************************)
EXTENDS Integers, Sequences, FiniteSets, TLC

VARIABLES
    nads,          \* nadController.nads: NAD key -> network name ("" = no entry)
    primaryNADs,   \* nadController.primaryNADs: namespace -> NAD key (NoKey = no entry)
    networks,      \* the network manager's registry: network name -> NetInfo
    delivered,     \* per key, the kind of declaration of the latest syncNAD call for it
    last           \* the latest call: its arguments, the network its key was bound to
                   \* before, its return value, its network manager calls

nadVars == <<nads, primaryNADs, networks, delivered, last>>

\* The earlier NADController, which keeps its own map of networks.
VARIABLES
    mapNads,       \* NADController.nads: NAD key -> network name ("" = no entry)
    mapNetworks,   \* NADController.networks: network name -> NetInfo (possibly nil)
    mapManager,    \* the network manager's registry: network name -> NetInfo
    mapLast        \* the latest syncNAD call: arguments, return value, manager calls

mapVars == <<mapNads, mapNetworks, mapManager, mapLast>>

\* The northbound database and the load-balancer reconciler.
VARIABLES
    nb,            \* the northbound database: the Load_Balancer rows by UUID and, per
                   \* switch, router and group name, the load balancers it references
    lastLB         \* the latest EnsureLBs call: arguments, failed step, return value

lbVars == <<nb, lastLB>>

\* Two owners inside EnsureLBs at the same time.
VARIABLES
    start,         \* the northbound database when the two owners entered EnsureLBs
    callers,       \* per owner: where its call stands, its desired list, what it
                   \* has read from the database, its return value
    rounds         \* how often the two owners have entered EnsureLBs together

concurrentVars == <<start, callers, rounds>>

\* The comparator of desired lists.
VARIABLES
    comparison     \* the latest LoadBalancersEqualNoUUID call: the two lists handed
                   \* in, the two lists as the call left them, the return value

equalVars == <<comparison>>

\* The registry of the nadController under its read-write lock.
VARIABLES
    registry,      \* nads, primaryNADs and the network manager's networks, as they
                   \* are in memory at this instant
    stable,        \* the registry as the latest finished syncNAD call left it
    mutex,         \* the sync.RWMutex: whether the writer holds it, the readers
                   \* that hold it
    worker,        \* the sync worker inside syncNAD: position and local variables
    readers,       \* per caller of GetActiveNetworkForNamespace: position, what it
                   \* has read, what it returned
    syncs          \* how many syncNAD calls the worker has begun

lockVars == <<registry, stable, mutex, worker, readers, syncs>>

\* The initial pass of the nadController over the listed declarations.
VARIABLES
    pass           \* the syncAll call: the listing, whether it failed, the items
                   \* handed to syncNAD in order, the return value

passVars == <<pass>>

\* The keys the worker tries again after a configuration mismatch.
VARIABLES
    rejected,      \* per key, the declaration its latest sync was rejected with for
                   \* a configuration mismatch, as long as every sync since then
                   \* was the deletion of another key of the same network
    retried        \* what rejected held for the key of the latest sync when that
                   \* sync began

retryVars == <<rejected, retried>>

\* Two callers inside EnsureLBs with the same ownership tag.
VARIABLES
    racers         \* per caller: where its call stands, its desired list, what it
                   \* has read from the database, its return value, and whether it
                   \* read its rows after the other caller had committed

raceVars == <<racers>>

\* The row built from a desired load balancer.
VARIABLES
    encoding       \* the latest buildLB call: the desired load balancer handed in
                   \* and the row returned

buildVars == <<encoding>>

\* The bulk operations on the load balancers.
VARIABLES
    lastBulk       \* the latest DeleteLBs or DeleteLoadBalancerVIPs call: arguments,
                   \* failed step, return value, transactions committed or attempted

bulkVars == <<lastBulk>>

vars == <<nadVars, mapVars, lbVars, concurrentVars, equalVars, lockVars, passVars, retryVars, raceVars, buildVars, bulkVars>>

\* what the steps of one component leave alone
outsideNAD == <<mapVars, lbVars, concurrentVars, equalVars, lockVars, passVars, retryVars, raceVars, buildVars, bulkVars>>

outsideMap == <<nadVars, lbVars, concurrentVars, equalVars, lockVars, passVars, retryVars, raceVars, buildVars, bulkVars>>

outsideLB == <<nadVars, mapVars, equalVars, lockVars, passVars, retryVars, raceVars, buildVars, bulkVars>>

outsideEqual == <<nadVars, mapVars, lbVars, concurrentVars, lockVars, passVars, retryVars, raceVars, buildVars, bulkVars>>

outsideLock == <<nadVars, mapVars, lbVars, concurrentVars, equalVars, passVars, retryVars, raceVars, buildVars, bulkVars>>

outsidePass == <<mapVars, lbVars, concurrentVars, equalVars, lockVars, retryVars, raceVars, buildVars, bulkVars>>

outsideRetry == <<mapVars, lbVars, concurrentVars, equalVars, lockVars, passVars, raceVars, buildVars, bulkVars>>

outsideRace == <<nadVars, mapVars, equalVars, lockVars, passVars, retryVars, buildVars, bulkVars>>

outsideBulk == <<nadVars, mapVars, concurrentVars, equalVars, lockVars, passVars, retryVars, raceVars, buildVars>>

outsideBuild == <<nadVars, mapVars, lbVars, concurrentVars, equalVars, lockVars, passVars, retryVars, raceVars, bulkVars>>

-----------------------------------------------------------------------------
(* Bounds of the model. *)

\* number of distinct network configurations (topology, subnets, MTU, role)
\* a declaration may carry
MaxConf == 2

Namespaces == {"ns1", "ns2"}

\* namespace-qualified NAD keys "<namespace>/<name>", kept as their two parts
Keys == {<<"ns1", "a">>, <<"ns1", "b">>, <<"ns2", "a">>}

NetNames == {"n1", "n2"}

Confs == 1..MaxConf

\* the role is part of the configuration: odd configurations are primary
\* networks, even ones secondary networks
RoleOf(conf) == IF conf % 2 = 1 THEN "primary" ELSE "secondary"

-----------------------------------------------------------------------------
(* Values. *)

\* Go's "" for a NAD key
NoKey == <<>>

\* a nil util.NetInfo
NilNet == [nads |-> {}, conf |-> 0, nil |-> TRUE, name |-> ""]

\* a nil *NetworkAttachmentDefinition
NilNAD == [conf |-> 0, nil |-> TRUE, name |-> "", valid |-> FALSE]

\* a declaration whose configuration does not parse
BadNADs == {[conf |-> 0, nil |-> FALSE, name |-> "", valid |-> FALSE]}

GoodNADs ==
    { [conf |-> c, nil |-> FALSE, name |-> n, valid |-> TRUE] :
        n \in NetNames, c \in Confs }

\* what syncNAD may be handed as its nad argument
NADInputs == {NilNAD} \cup BadNADs \cup GoodNADs

\* what is remembered of a delivered declaration: a deletion, a malformed
\* configuration, or the role of the network it parses to
DeclKind(nad) ==
    IF nad.nil THEN "nil"
    ELSE IF ~nad.valid THEN "bad"
    ELSE RoleOf(nad.conf)

\* no declaration delivered yet for a key
NotDelivered == "none"

-----------------------------------------------------------------------------
(* Helpers of util and cache used by the controller. *)

\* cache.SplitMetaNamespaceKey: "name" and "namespace/name" split, anything else fails
SplitMetaNamespaceKey(key) ==
    IF Len(key) = 1 THEN [name |-> key[1], err |-> FALSE, namespace |-> ""]
    ELSE IF Len(key) = 2 THEN [name |-> key[2], err |-> FALSE, namespace |-> key[1]]
    ELSE [name |-> "", err |-> TRUE, namespace |-> ""]

\* util.ParseNADInfo: the network a declaration describes, with no NAD referencing it yet
ParseNADInfo(nad) ==
    IF nad.valid
    THEN [err |-> FALSE,
          net |-> [nads |-> {}, conf |-> nad.conf, nil |-> FALSE, name |-> nad.name]]
    ELSE [err |-> TRUE, net |-> NilNet]

\* NetInfo.IsPrimaryNetwork: the role of the configuration is primary
IsPrimaryNetwork(net) == ~net.nil /\ RoleOf(net.conf) = "primary"

\* NetInfo.Equals: equal configurations, whatever NADs reference them
Equals(a, b) ==
    /\ ~a.nil
    /\ ~b.nil
    /\ a.name = b.name
    /\ a.conf = b.conf

\* NetInfo.GetNADs
GetNADs(net) == net.nads

\* NetInfo.AddNADs
AddNADs(net, key) == [net EXCEPT !.nads = @ \cup {key}]

\* NetInfo.DeleteNADs
DeleteNADs(net, key) == [net EXCEPT !.nads = @ \ {key}]

\* NetInfo.SetNADs
SetNADs(net, key) == [net EXCEPT !.nads = {key}]

\* util.CopyNetInfo
CopyNetInfo(net) == net

-----------------------------------------------------------------------------
(* The network manager: EnsureNetwork, DeleteNetwork, getNetwork. *)

\* networkManager.getNetwork: the network registered under a name, or nil
getNetwork(nm, name) == IF name \in DOMAIN nm THEN nm[name] ELSE NilNet

\* networkManager.EnsureNetwork: the registry after ensuring net
EnsureNetwork(nm, net) == (net.name :> net) @@ nm

\* networkManager.DeleteNetwork: the registry after deleting name
DeleteNetwork(nm, name) == [n \in (DOMAIN nm) \ {name} |-> nm[n]]

-----------------------------------------------------------------------------
(* nadController.syncNAD, in the order of its code. *)

\* Go map reads of c.nads and c.primaryNADs
nadsOf(c, key) == c.nads[key]

\* variant: the guard never fires
primaryConflictNever(primaryNAD, nadNetwork, key) == FALSE

\* the primary NAD guard: one primary NAD per namespace
primaryConflict(primaryNAD, nadNetwork, key) ==
    /\ ~nadNetwork.nil
    /\ IsPrimaryNetwork(nadNetwork)
    /\ primaryNAD /= NoKey
    /\ primaryNAD /= key

\* variant: the network the NAD referred to before is never looked up
previousNetworkForgotten(c, key, nadNetworkName) == NilNet

\* variant: a deletion does not look up the network the NAD referred to
previousNetworkNoneOnDelete(c, key, nadNetworkName) ==
    IF nadNetworkName /= nadsOf(c, key) /\ nadNetworkName /= ""
    THEN getNetwork(c.networks, nadsOf(c, key))
    ELSE NilNet

\* the network the NAD referred to before, when it now refers to another one
previousNetwork(c, key, nadNetworkName) ==
    IF nadNetworkName /= nadsOf(c, key)
    THEN getNetwork(c.networks, nadsOf(c, key))
    ELSE NilNet

\* variant: a compatible existing network is replaced by the parsed one,
\* which holds no reference of the other NADs
resolveNetworkForgetsReferences(currentNetwork, nadNetwork, oldNetwork, key) ==
    IF currentNetwork.nil \/ Equals(currentNetwork, nadNetwork)
    THEN [err |-> "", oldNetwork |-> oldNetwork, ensureNetwork |-> nadNetwork]
    ELSE IF GetNADs(currentNetwork) \subseteq {key}
    THEN [err |-> "", oldNetwork |-> currentNetwork, ensureNetwork |-> nadNetwork]
    ELSE IF oldNetwork.nil
    THEN [err |-> "mismatch", oldNetwork |-> currentNetwork, ensureNetwork |-> NilNet]
    ELSE [err |-> "mismatch", oldNetwork |-> oldNetwork, ensureNetwork |-> NilNet]

\* variant: on a mismatch the current network is not taken as the old network,
\* so it keeps its reference to the NAD
resolveNetworkKeepsReference(currentNetwork, nadNetwork, oldNetwork, key) ==
    IF currentNetwork.nil
    THEN [err |-> "", oldNetwork |-> oldNetwork, ensureNetwork |-> nadNetwork]
    ELSE IF Equals(currentNetwork, nadNetwork)
    THEN [err |-> "", oldNetwork |-> oldNetwork, ensureNetwork |-> currentNetwork]
    ELSE IF GetNADs(currentNetwork) \subseteq {key}
    THEN [err |-> "", oldNetwork |-> currentNetwork, ensureNetwork |-> nadNetwork]
    ELSE [err |-> "mismatch", oldNetwork |-> oldNetwork, ensureNetwork |-> NilNet]

\* variant: a network that is registered is never joined, whatever its
\* configuration
resolveNetworkNeverJoins(currentNetwork, nadNetwork, oldNetwork, key) ==
    IF currentNetwork.nil
    THEN [err |-> "", oldNetwork |-> oldNetwork, ensureNetwork |-> nadNetwork]
    ELSE IF GetNADs(currentNetwork) \subseteq {key}
    THEN [err |-> "", oldNetwork |-> currentNetwork, ensureNetwork |-> nadNetwork]
    ELSE IF oldNetwork.nil
    THEN [err |-> "mismatch", oldNetwork |-> currentNetwork, ensureNetwork |-> NilNet]
    ELSE [err |-> "mismatch", oldNetwork |-> oldNetwork, ensureNetwork |-> NilNet]

\* variant: the only referencing NAD changes the configuration of the
\* registered network in place, without leaving the network first
resolveNetworkChangesInPlace(currentNetwork, nadNetwork, oldNetwork, key) ==
    IF currentNetwork.nil
    THEN [err |-> "", oldNetwork |-> oldNetwork, ensureNetwork |-> nadNetwork]
    ELSE IF Equals(currentNetwork, nadNetwork)
    THEN [err |-> "", oldNetwork |-> oldNetwork, ensureNetwork |-> currentNetwork]
    ELSE IF GetNADs(currentNetwork) \subseteq {key}
    THEN [err |-> "", oldNetwork |-> oldNetwork, ensureNetwork |-> nadNetwork]
    ELSE IF oldNetwork.nil
    THEN [err |-> "mismatch", oldNetwork |-> currentNetwork, ensureNetwork |-> NilNet]
    ELSE [err |-> "mismatch", oldNetwork |-> oldNetwork, ensureNetwork |-> NilNet]

\* the switch on currentNetwork: which network to leave, which to ensure, the error
resolveNetwork(currentNetwork, nadNetwork, oldNetwork, key) ==
    IF currentNetwork.nil
    THEN [err |-> "", oldNetwork |-> oldNetwork, ensureNetwork |-> nadNetwork]
    ELSE IF Equals(currentNetwork, nadNetwork)
    THEN [err |-> "", oldNetwork |-> oldNetwork, ensureNetwork |-> currentNetwork]
    ELSE IF GetNADs(currentNetwork) \subseteq {key}
    THEN [err |-> "", oldNetwork |-> currentNetwork, ensureNetwork |-> nadNetwork]
    ELSE IF oldNetwork.nil
    THEN [err |-> "mismatch", oldNetwork |-> currentNetwork, ensureNetwork |-> NilNet]
    ELSE [err |-> "mismatch", oldNetwork |-> oldNetwork, ensureNetwork |-> NilNet]

\* variant: the old network is deleted while one NAD still references it
removeFromOldNetworkOffByOne(nm, oldNetwork, key) ==
    IF oldNetwork.nil
    THEN [networks |-> nm, calls |-> <<>>]
    ELSE LET reduced == DeleteNADs(oldNetwork, key)
         IN  IF Cardinality(GetNADs(reduced)) <= 1
             THEN [networks |-> DeleteNetwork(nm, oldNetwork.name),
                   calls |-> << <<"DeleteNetwork", oldNetwork.name>> >>]
             ELSE [networks |-> EnsureNetwork(nm, reduced),
                   calls |-> << <<"EnsureNetwork", reduced.name>> >>]

\* variant: an old network that other NADs still reference is left as it is,
\* with its reference to the NAD
removeFromOldNetworkLeavesShared(nm, oldNetwork, key) ==
    IF oldNetwork.nil
    THEN [networks |-> nm, calls |-> <<>>]
    ELSE LET reduced == DeleteNADs(oldNetwork, key)
         IN  IF Cardinality(GetNADs(reduced)) = 0
             THEN [networks |-> DeleteNetwork(nm, oldNetwork.name),
                   calls |-> << <<"DeleteNetwork", oldNetwork.name>> >>]
             ELSE [networks |-> nm, calls |-> <<>>]

\* remove the NAD reference from the old network, delete it when unreferenced
removeFromOldNetwork(nm, oldNetwork, key) ==
    IF oldNetwork.nil
    THEN [networks |-> nm, calls |-> <<>>]
    ELSE LET reduced == DeleteNADs(oldNetwork, key)
         IN  IF Cardinality(GetNADs(reduced)) = 0
             THEN [networks |-> DeleteNetwork(nm, oldNetwork.name),
                   calls |-> << <<"DeleteNetwork", oldNetwork.name>> >>]
             ELSE [networks |-> EnsureNetwork(nm, reduced),
                   calls |-> << <<"EnsureNetwork", reduced.name>> >>]

\* variant: the primary NAD entry is never deleted
clearPrimaryNever(primary, namespace, key) == primary

\* delete(c.primaryNADs, namespace) when it holds key
clearPrimary(primary, namespace, key) ==
    IF primary[namespace] = key
    THEN [primary EXCEPT ![namespace] = NoKey]
    ELSE primary

\* variant: the entry of a NAD whose network is no longer primary is kept
trackPrimaryKeepsStale(primary, namespace, key, ensureNetwork) ==
    IF IsPrimaryNetwork(ensureNetwork)
    THEN [primary EXCEPT ![namespace] = key]
    ELSE primary

\* track primary NAD
trackPrimary(primary, namespace, key, ensureNetwork) ==
    IF IsPrimaryNetwork(ensureNetwork)
    THEN [primary EXCEPT ![namespace] = key]
    ELSE clearPrimary(primary, namespace, key)

\* the controller unchanged, with a return value and no manager call
returnEarly(c, err) ==
    [nads |-> c.nads, primaryNADs |-> c.primaryNADs, networks |-> c.networks,
     err |-> err, calls |-> <<>>]

\* the part of syncNAD that runs under c.Lock()
syncNADLocked(c, key, namespace, nadNetwork) ==
    LET nadNetworkName == nadNetwork.name
        primaryNAD == c.primaryNADs[namespace]
    IN  IF primaryConflict(primaryNAD, nadNetwork, key)
        THEN returnEarly(c, "primary")
        ELSE
        LET oldNetwork0 == previousNetwork(c, key, nadNetworkName)
            currentNetwork == getNetwork(c.networks, nadNetworkName)
            res == resolveNetwork(currentNetwork, nadNetwork, oldNetwork0, key)
            removed == removeFromOldNetwork(c.networks, res.oldNetwork, key)
        IN  IF res.ensureNetwork.nil
            THEN [nads |-> [c.nads EXCEPT ![key] = ""],
                  primaryNADs |-> clearPrimary(c.primaryNADs, namespace, key),
                  networks |-> removed.networks,
                  err |-> res.err,
                  calls |-> removed.calls]
            ELSE
            LET ensureNetwork == AddNADs(res.ensureNetwork, key)
            IN  [nads |-> [c.nads EXCEPT ![key] = ensureNetwork.name],
                 primaryNADs |-> trackPrimary(c.primaryNADs, namespace, key, ensureNetwork),
                 networks |-> EnsureNetwork(removed.networks, ensureNetwork),
                 err |-> "",
                 calls |-> Append(removed.calls,
                                  <<"EnsureNetwork", ensureNetwork.name>>)]

\* variant: a declaration that does not parse is handled as a deletion
syncNADDeletesMalformed(c, key, nad) ==
    LET split == SplitMetaNamespaceKey(key)
    IN  IF split.err
        THEN returnEarly(c, "split")
        ELSE IF nad.nil \/ ParseNADInfo(nad).err
        THEN syncNADLocked(c, key, split.namespace, NilNet)
        ELSE syncNADLocked(c, key, split.namespace, ParseNADInfo(nad).net)

\* nadController.syncNAD(key, nad): the controller after the call, the error
\* returned ("" is nil) and the network manager calls made, in order
syncNAD(c, key, nad) ==
    LET split == SplitMetaNamespaceKey(key)
    IN  IF split.err
        THEN returnEarly(c, "split")
        ELSE IF nad.nil
        THEN syncNADLocked(c, key, split.namespace, NilNet)
        ELSE LET parsed == ParseNADInfo(nad)
             IN  IF parsed.err
                 THEN returnEarly(c, "")
                 ELSE syncNADLocked(c, key, split.namespace, parsed.net)

-----------------------------------------------------------------------------
(* NADController.syncNAD: the controller that keeps its own networks map.  *)
(* The map holds references: a network changed through AddNADs or          *)
(* DeleteNADs is changed in the map too, as long as it is the object the   *)
(* map holds.                                                              *)

\* Go map read of c.networks: nil when there is no entry
networksOf(m, name) == IF name \in DOMAIN m THEN m[name] ELSE NilNet

\* c.networks[name] = net
storeNetwork(m, name, net) == (name :> net) @@ m

\* delete(c.networks, name)
dropNetwork(m, name) == [n \in (DOMAIN m) \ {name} |-> m[n]]

\* the switch on currentNetwork; a new network is stored in c.networks at
\* once, a network recreated with another configuration is not
resolveInNetworksMap(m, currentNetwork, nadNetwork, oldNetwork, key) ==
    IF currentNetwork.nil
    THEN [networks |-> storeNetwork(m, nadNetwork.name, nadNetwork), err |-> "",
          oldNetwork |-> oldNetwork, ensureNetwork |-> nadNetwork, inMap |-> TRUE]
    ELSE IF Equals(currentNetwork, nadNetwork)
    THEN [networks |-> m, err |-> "", oldNetwork |-> oldNetwork,
          ensureNetwork |-> currentNetwork, inMap |-> TRUE]
    ELSE IF GetNADs(currentNetwork) \subseteq {key}
    THEN [networks |-> m, err |-> "", oldNetwork |-> currentNetwork,
          ensureNetwork |-> nadNetwork, inMap |-> FALSE]
    ELSE IF oldNetwork.nil
    THEN [networks |-> m, err |-> "mismatch", oldNetwork |-> currentNetwork,
          ensureNetwork |-> NilNet, inMap |-> FALSE]
    ELSE [networks |-> m, err |-> "mismatch", oldNetwork |-> oldNetwork,
          ensureNetwork |-> NilNet, inMap |-> FALSE]

\* remove the NAD reference from the old network, delete the network from the
\* manager and from c.networks when it is no longer referenced
removeFromOldInNetworksMap(m, nm, oldNetwork, key) ==
    IF oldNetwork.nil
    THEN [networks |-> m, calls |-> <<>>, manager |-> nm]
    ELSE LET reduced == DeleteNADs(oldNetwork, key)
         IN  IF Cardinality(GetNADs(reduced)) = 0
             THEN [networks |-> dropNetwork(m, oldNetwork.name),
                   calls |-> << <<"DeleteNetwork", oldNetwork.name>> >>,
                   manager |-> DeleteNetwork(nm, oldNetwork.name)]
             ELSE [networks |-> storeNetwork(m, oldNetwork.name, reduced),
                   calls |-> << <<"EnsureNetwork", reduced.name>> >>,
                   manager |-> EnsureNetwork(nm, reduced)]

\* NADController.syncNAD(key, nad): the controller and the manager after the
\* call, the error returned ("" is nil) and the network manager calls made
syncNADWithNetworksMap(c, key, nad) ==
    LET parsed == IF nad.nil THEN [err |-> FALSE, net |-> NilNet] ELSE ParseNADInfo(nad)
    IN  IF parsed.err
        THEN [nads |-> c.nads, networks |-> c.networks, err |-> "", calls |-> <<>>,
              manager |-> c.manager]
        ELSE
        LET nadNetwork == parsed.net
            nadNetworkName == nadNetwork.name
            oldNetwork0 == IF nadNetworkName /= c.nads[key]
                           THEN networksOf(c.networks, c.nads[key])
                           ELSE NilNet
            currentNetwork == networksOf(c.networks, nadNetworkName)
            res == resolveInNetworksMap(c.networks, currentNetwork, nadNetwork,
                                        oldNetwork0, key)
            removed == removeFromOldInNetworksMap(res.networks, c.manager,
                                                  res.oldNetwork, key)
        IN  IF res.ensureNetwork.nil
            THEN [nads |-> [c.nads EXCEPT ![key] = ""], networks |-> removed.networks,
                  err |-> res.err, calls |-> removed.calls, manager |-> removed.manager]
            ELSE
            LET ensureNetwork == AddNADs(res.ensureNetwork, key)
            IN  [nads |-> [c.nads EXCEPT ![key] = ensureNetwork.name],
                 networks |-> IF res.inMap
                              THEN storeNetwork(removed.networks, ensureNetwork.name,
                                                ensureNetwork)
                              ELSE removed.networks,
                 err |-> res.err,
                 calls |-> Append(removed.calls, <<"EnsureNetwork", ensureNetwork.name>>),
                 manager |-> EnsureNetwork(removed.manager, ensureNetwork)]

-----------------------------------------------------------------------------
(* nadController.GetActiveNetworkForNamespace. *)

\* util.DefaultNetInfo
DefaultNetInfo == [nads |-> {}, conf |-> 0, nil |-> FALSE, name |-> "default"]

\* what the UDN lister may answer for a namespace: whether the listing fails,
\* and whether a primary user-defined network exists in the namespace
UDNListings == [primary : BOOLEAN, fail : BOOLEAN]

\* a result of GetActiveNetworkForNamespace that carries no network
noNetwork(c, kind) == [networks |-> c.networks, net |-> NilNet, kind |-> kind]

\* variant: the NADs are set on the registered network itself, not on a copy
copyWithPrimaryNADShared(network, primaryNAD) ==
    [net |-> SetNADs(network, primaryNAD), registered |-> SetNADs(network, primaryNAD)]

\* the copy handed out for a namespace's primary network, holding only the
\* primary NAD, and the registered network as the call leaves it
copyWithPrimaryNAD(network, primaryNAD) ==
    [net |-> SetNADs(CopyNetInfo(network), primaryNAD), registered |-> network]

\* the lookup of the UDN lister when no primary NAD is recorded
unprocessedOrDefault(c, udns) ==
    IF udns.fail
    THEN noNetwork(c, "listerror")
    ELSE IF udns.primary
    THEN noNetwork(c, "unprocessed")
    ELSE [networks |-> c.networks, net |-> DefaultNetInfo, kind |-> "default"]

\* the returned network or the kind of error (or panic), and the manager's
\* registry as the call leaves it
GetActiveNetworkForNamespace(c, namespace, segmentation, udns) ==
    IF ~segmentation
    THEN [networks |-> c.networks, net |-> DefaultNetInfo, kind |-> "default"]
    ELSE LET primaryNAD == c.primaryNADs[namespace]
         IN  IF primaryNAD /= NoKey
             THEN LET netName == c.nads[primaryNAD]
                  IN  IF netName = ""
                      THEN noNetwork(c, "panic")
                      ELSE LET network == getNetwork(c.networks, netName)
                           IN  IF network.nil
                               THEN noNetwork(c, "nilderef")
                               ELSE LET n == copyWithPrimaryNAD(network, primaryNAD)
                                    IN  [networks |-> [c.networks EXCEPT
                                                         ![netName] = n.registered],
                                         net |-> n.net, kind |-> "network"]
             ELSE unprocessedOrDefault(c, udns)

-----------------------------------------------------------------------------
(* The NAD controller as a state machine. *)

ctrl == [nads |-> nads, primaryNADs |-> primaryNADs, networks |-> networks]

NoLast ==
    [nad |-> NilNAD, key |-> NoKey, err |-> "", namespace |-> "", calls |-> <<>>,
     udns |-> [primary |-> FALSE, fail |-> FALSE], segmentation |-> FALSE, op |-> "none",
     was |-> "", repeat |-> FALSE, ret |-> [net |-> NilNet, kind |-> ""]]

\* newNADController: empty maps, no network ensured
InitNAD ==
    /\ nads = [k \in Keys |-> ""]
    /\ primaryNADs = [ns \in Namespaces |-> NoKey]
    /\ networks = <<>>
    /\ delivered = [k \in Keys |-> NotDelivered]
    /\ last = NoLast

\* one call of syncNAD by the single worker (sync or syncAll)
SyncNAD(key, nad) ==
    LET r == syncNAD(ctrl, key, nad)
    IN  /\ nads' = r.nads
        /\ primaryNADs' = r.primaryNADs
        /\ networks' = r.networks
        /\ delivered' = [delivered EXCEPT ![key] = DeclKind(nad)]
        /\ last' = [NoLast EXCEPT !.op = "syncNAD", !.key = key, !.nad = nad,
                                  !.was = nads[key], !.err = r.err, !.calls = r.calls,
                                  !.repeat = (last.op = "syncNAD" /\ last.key = key
                                              /\ last.nad = nad)]
        /\ UNCHANGED outsideNAD

\* one call of GetActiveNetworkForNamespace by any caller
GetActive(namespace, segmentation, udns) ==
    LET r == GetActiveNetworkForNamespace(ctrl, namespace, segmentation, udns)
    IN  /\ networks' = r.networks
        /\ last' = [NoLast EXCEPT !.op = "getActive", !.namespace = namespace,
                                  !.segmentation = segmentation, !.udns = udns,
                                  !.ret = [net |-> r.net, kind |-> r.kind]]
        /\ UNCHANGED <<nads, primaryNADs, delivered>>
        /\ UNCHANGED outsideNAD

NextNAD ==
    \/ \E key \in Keys, nad \in NADInputs : SyncNAD(key, nad)
    \/ \E ns \in Namespaces, udns \in UDNListings : GetActive(ns, TRUE, udns)
    \/ \E ns \in Namespaces : GetActive(ns, FALSE, [primary |-> FALSE, fail |-> FALSE])

-----------------------------------------------------------------------------
(* The NADController with its own networks map as a state machine. *)

mapCtrl == [nads |-> mapNads, networks |-> mapNetworks, manager |-> mapManager]

\* newNADController: empty maps, no network ensured
InitMap ==
    /\ mapNads = [k \in Keys |-> ""]
    /\ mapNetworks = <<>>
    /\ mapManager = <<>>
    /\ mapLast = [nad |-> NilNAD, key |-> NoKey, err |-> "", calls |-> <<>>, was |-> ""]

\* one call of NADController.syncNAD by the single worker
MapSyncNAD(key, nad) ==
    LET r == syncNADWithNetworksMap(mapCtrl, key, nad)
    IN  /\ mapNads' = r.nads
        /\ mapNetworks' = r.networks
        /\ mapManager' = r.manager
        /\ mapLast' = [nad |-> nad, key |-> key, err |-> r.err, calls |-> r.calls,
                       was |-> mapNads[key]]
        /\ UNCHANGED outsideMap

NextMap == \E key \in Keys, nad \in NADInputs : MapSyncNAD(key, nad)

-----------------------------------------------------------------------------
(* The load-balancer reconciler: bounds and values. *)

\* longest desired list handed to EnsureLBs
MaxLBs == 2

\* number of row UUIDs the northbound database can hand out
MaxUUID == 4

UUIDs == 1..MaxUUID

\* the zero UUID of a row that does not exist yet
NoUUID == 0

LBNames == {"A", "B"}

\* ownership tags (externalIDs maps) of the two owners that call EnsureLBs
FirstOwner == [owner |-> "t1"]

SecondOwner == [owner |-> "t2"]

Tags == {FirstOwner, SecondOwner}

\* logical switches, routers and load balancer groups of the database; the
\* unnamed switch stands for rows created by other clients without a name
SwitchNames == {"", "s1", "s2"}

RouterNames == {"r1"}

GroupNames == {"g1"}

\* LBOpts of every desired load balancer of the model
DefaultOpts == [Unidling |-> FALSE, Affinity |-> FALSE, SkipSNAT |-> FALSE]

\* protocol, switches, routers and groups of the desired load balancers
Attached == [Protocol |-> "TCP", Switches |-> <<"s1">>, Routers |-> <<"r1">>,
             Groups |-> <<>>]

Moved == [Protocol |-> "UDP", Switches |-> <<"s1", "s2">>, Routers |-> <<>>,
          Groups |-> <<"g1">>]

\* "s3" is a switch the database does not have
Misplaced == [Protocol |-> "TCP", Switches |-> <<"s3">>, Routers |-> <<>>,
              Groups |-> <<>>]

\* the LB struct: a desired load balancer
LB(name, externalIDs, v) ==
    [Protocol |-> v.Protocol, Switches |-> v.Switches, Routers |-> v.Routers,
     Groups |-> v.Groups, Name |-> name, UUID |-> NoUUID, ExternalIDs |-> externalIDs,
     Opts |-> DefaultOpts, Rules |-> <<>>]

\* the load balancers an owner may desire: the first owner "A" attached or
\* moved and "B" attached or on a missing switch, the second owner a single one
DesiredLBs(externalIDs) ==
    IF externalIDs = FirstOwner
    THEN {LB("A", externalIDs, Attached), LB("A", externalIDs, Moved),
          LB("B", externalIDs, Attached), LB("B", externalIDs, Misplaced)}
    ELSE {LB("A", externalIDs, Attached)}

\* the desired lists of an owner: the lists of at most n of its load
\* balancers, "A" before "B"; the name "A" may repeat
DesiredLists(externalIDs, n) ==
    {LBs \in UNION {[1..m -> DesiredLBs(externalIDs)] : m \in 0..n} :
        \A i, j \in DOMAIN LBs : i < j => LBs[i].Name = "A"}

\* the desired list of the calls that the database client fails
FailingLists(externalIDs) == {<<LB("A", externalIDs, Attached)>>}

\* where a call of EnsureLBs can be failed by the database client
FailStages == {"listSwitches", "listRouters", "listGroups", "buildOps", "transact"}

Range(s) == {s[i] : i \in DOMAIN s}

\* all orders in which a set of rows can be returned
Orderings(S) ==
    {s \in [1..Cardinality(S) -> S] : \A i, j \in DOMAIN s : i # j => s[i] # s[j]}

\* a map read that yields the zero value for a missing key
Lookup(m, k, zero) == IF k \in DOMAIN m THEN m[k] ELSE zero

-----------------------------------------------------------------------------
(* buildLB and buildVipMap. *)

ToLower(s) ==
    CASE s = "TCP" -> "tcp"
      [] s = "Tcp" -> "tcp"
      [] s = "UDP" -> "udp"
      [] s = "SCTP" -> "sctp"
      [] OTHER -> s

RECURSIVE Join(_, _)
Join(elems, sep) ==
    IF Len(elems) = 0 THEN ""
    ELSE IF Len(elems) = 1 THEN elems[1]
    ELSE elems[1] \o sep \o Join(Tail(elems), sep)

\* a variant in which the first of two rules with one source wins
RECURSIVE buildVipMapFirstWins(_)
buildVipMapFirstWins(rules) ==
    IF rules = <<>> THEN <<>>
    ELSE LET r == rules[Len(rules)]
         IN  buildVipMapFirstWins(SubSeq(rules, 1, Len(rules) - 1))
             @@ (r.Source :> Join(r.Targets, ","))

RECURSIVE buildVipMap(_)
buildVipMap(rules) ==
    IF rules = <<>> THEN <<>>
    ELSE LET r == rules[Len(rules)]
         IN  (r.Source :> Join(r.Targets, ","))
             @@ buildVipMap(SubSeq(rules, 1, Len(rules) - 1))

\* libovsdbops.BuildLoadBalancer: the row without a UUID
BuildLoadBalancer(name, protocol, selectionFields, vips, options, externalIDs) ==
    [Protocol |-> protocol, Name |-> name, UUID |-> NoUUID, ExternalIDs |-> externalIDs,
     SelectionFields |-> selectionFields, Vips |-> vips, Options |-> options]

buildLB(lb) ==
    LET reject == IF lb.Opts.Unidling THEN "false" ELSE "true"
        event == IF lb.Opts.Unidling THEN "true" ELSE "false"
        skipSNAT == IF lb.Opts.SkipSNAT THEN "true" ELSE "false"
        options == [reject |-> reject, event |-> event, skip_snat |-> skipSNAT]
        selectionFields == IF lb.Opts.Affinity THEN <<"ip_src", "ip_dst">> ELSE <<>>
        vips == buildVipMap(lb.Rules)
    IN  BuildLoadBalancer(lb.Name, ToLower(lb.Protocol), selectionFields, vips,
                          options, lb.ExternalIDs)

-----------------------------------------------------------------------------
(* The callers of buildLB. *)

\* longest list of rules of a desired load balancer, and longest list of
\* targets of a rule
MaxRules == 2

MaxTargets == 2

\* what Addr.String() yields for the sources and the targets of the rules
Sources == {"10.0.0.1:80", "10.0.0.2:80"}

Targets == {"10.1.0.1:8080", "10.1.0.2:8080"}

Protocols == {"TCP", "Tcp", "udp"}

\* the rules a desired load balancer may carry
LBRules == [Source : Sources, Targets : UNION {[1..m -> Targets] : m \in 0..MaxTargets}]

\* the desired load balancers handed to buildLB
BuiltLBs ==
    {[LB("A", FirstOwner, [Attached EXCEPT !.Protocol = protocol])
         EXCEPT !.Opts = opts, !.Rules = rules] :
        protocol \in Protocols,
        opts \in [Unidling : BOOLEAN, Affinity : BOOLEAN, SkipSNAT : BOOLEAN],
        rules \in UNION {[1..m -> LBRules] : m \in 0..MaxRules}}

\* no buildLB call yet
NoEncoding == [lb |-> LB("", [owner |-> ""], Attached), row |-> <<>>, called |-> FALSE]

InitBuild == encoding = NoEncoding

\* a caller holds a desired load balancer
InitBuilt == \E lb \in BuiltLBs : encoding = [NoEncoding EXCEPT !.lb = lb]

\* the call of buildLB on the desired load balancer
Build ==
    /\ ~encoding.called
    /\ encoding' = [encoding EXCEPT !.row = buildLB(encoding.lb), !.called = TRUE]
    /\ UNCHANGED outsideBuild

NextBuild == Build

-----------------------------------------------------------------------------
(* The northbound database as the reconciler's client sees it. *)

\* the rows of a table as a set of records
Rows(table) == {table[u] : u \in DOMAIN table}

\* libovsdbops.FindLoadBalancersByExternalIDs: the rows whose external_ids
\* hold every pair of externalIDs
MatchesExternalIDs(row, externalIDs) ==
    \A k \in DOMAIN externalIDs :
        k \in DOMAIN row.ExternalIDs /\ row.ExternalIDs[k] = externalIDs[k]

FindLoadBalancersByExternalIDs(db, externalIDs) ==
    {row \in Rows(db.LoadBalancer) : MatchesExternalIDs(row, externalIDs)}

\* libovsdbops.ListSwitchesWithLoadBalancers and its router and group twins:
\* the rows of the table that reference at least one load balancer
ListWithLoadBalancers(table) ==
    {[Name |-> n, LoadBalancer |-> table[n]] : n \in {m \in DOMAIN table : table[m] # {}}}

\* the inversion loop shared by listSwitches, listRouters and listGroups
lbToNames(rows) ==
    LET named == {r \in rows : r.Name # ""}
        lbUUIDs == UNION {r.LoadBalancer : r \in named}
    IN  [u \in lbUUIDs |-> {r.Name : r \in {q \in named : u \in q.LoadBalancer}}]

listSwitches(db) == lbToNames(ListWithLoadBalancers(db.LogicalSwitch))

listRouters(db) == lbToNames(ListWithLoadBalancers(db.LogicalRouter))

listGroups(db) == lbToNames(ListWithLoadBalancers(db.LoadBalancerGroup))

-----------------------------------------------------------------------------
(* EnsureLBs: from the existing rows to the operations. *)

\* a variant that marks only the colliding rows for deletion
RECURSIVE indexExistingMarksCollisionsOnly(_)
indexExistingMarksCollisionsOnly(existing) ==
    IF existing = <<>> THEN [existingByName |-> <<>>, toDelete |-> {}]
    ELSE LET acc == indexExistingMarksCollisionsOnly(SubSeq(existing, 1, Len(existing) - 1))
             lb == existing[Len(existing)]
         IN  IF lb.Name \in DOMAIN acc.existingByName
             THEN [existingByName |->
                       [n \in DOMAIN acc.existingByName \ {lb.Name} |->
                           acc.existingByName[n]],
                   toDelete |-> acc.toDelete \cup {lb.UUID}]
             ELSE [existingByName |-> (lb.Name :> lb) @@ acc.existingByName,
                   toDelete |-> acc.toDelete]

\* a variant that keeps the first of two colliding rows in existingByName
RECURSIVE indexExistingKeepsFirst(_)
indexExistingKeepsFirst(existing) ==
    IF existing = <<>> THEN [existingByName |-> <<>>, toDelete |-> {}]
    ELSE LET acc == indexExistingKeepsFirst(SubSeq(existing, 1, Len(existing) - 1))
             lb == existing[Len(existing)]
         IN  IF lb.Name \in DOMAIN acc.existingByName
             THEN [existingByName |-> acc.existingByName,
                   toDelete |-> acc.toDelete \cup {lb.UUID}]
             ELSE [existingByName |-> (lb.Name :> lb) @@ acc.existingByName,
                   toDelete |-> acc.toDelete \cup {lb.UUID}]

\* a variant that leaves no row of a shared name in existingByName, however
\* many rows share it
indexExistingDropsShared(existing) ==
    LET shared == {existing[i].Name : i \in {j \in DOMAIN existing :
                       \E k \in DOMAIN existing : k # j /\ existing[k].Name = existing[j].Name}}
        single == {i \in DOMAIN existing : existing[i].Name \notin shared}
    IN  [existingByName |-> [n \in {existing[i].Name : i \in single} |->
                                existing[CHOOSE i \in single : existing[i].Name = n]],
         toDelete |-> {existing[i].UUID : i \in DOMAIN existing}]

\* a variant that indexes no existing row and marks none for deletion
indexExistingForgetsRows(existing) == [existingByName |-> <<>>, toDelete |-> {}]

\* the loop over the existing rows: existingByName and toDelete
RECURSIVE indexExisting(_)
indexExisting(existing) ==
    IF existing = <<>> THEN [existingByName |-> <<>>, toDelete |-> {}]
    ELSE LET acc == indexExisting(SubSeq(existing, 1, Len(existing) - 1))
             lb == existing[Len(existing)]
         IN  IF lb.Name \in DOMAIN acc.existingByName
             THEN [existingByName |->
                       [n \in DOMAIN acc.existingByName \ {lb.Name} |->
                           acc.existingByName[n]],
                   toDelete |-> acc.toDelete \cup {lb.UUID}]
             ELSE [existingByName |-> (lb.Name :> lb) @@ acc.existingByName,
                   toDelete |-> acc.toDelete \cup {lb.UUID}]

\* a variant that adds the load balancer under every key of keyIn
mapLBDifferenceByKeyNoDifference(keyMap, keyIn, keyNotIn, lb) ==
    LET keys == keyIn
    IN  [k \in DOMAIN keyMap \cup keys |->
            IF k \in keys THEN Append(Lookup(keyMap, k, <<>>), lb) ELSE keyMap[k]]

mapLBDifferenceByKey(keyMap, keyIn, keyNotIn, lb) ==
    LET keys == keyIn \ keyNotIn
    IN  [k \in DOMAIN keyMap \cup keys |->
            IF k \in keys THEN Append(Lookup(keyMap, k, <<>>), lb) ELSE keyMap[k]]

NoOps ==
    [toDelete |-> {}, existinglbs |-> <<>>, newlbs |-> <<>>, addLBsToSwitch |-> <<>>,
     removeLBsFromSwitch |-> <<>>, addLBsToRouter |-> <<>>, removesLBsFromRouter |-> <<>>,
     addLBsToGroups |-> <<>>, removeLBsFromGroups |-> <<>>]

\* a variant that never reuses an existing row: every desired load balancer is
\* created, and the row of its name stays marked for deletion
reconcileLBAlwaysCreates(acc, lb, existingByName, lbToSwitchNames, lbToRouterNames, lbToGroupNames) ==
    LET blb == buildLB(lb)
        ptr == [new |-> TRUE, id |-> Len(acc.newlbs) + 1]
    IN  [toDelete |-> acc.toDelete,
         existinglbs |-> acc.existinglbs,
         newlbs |-> Append(acc.newlbs, blb),
         addLBsToSwitch |->
             mapLBDifferenceByKey(acc.addLBsToSwitch, Range(lb.Switches), {}, ptr),
         removeLBsFromSwitch |-> acc.removeLBsFromSwitch,
         addLBsToRouter |->
             mapLBDifferenceByKey(acc.addLBsToRouter, Range(lb.Routers), {}, ptr),
         removesLBsFromRouter |-> acc.removesLBsFromRouter,
         addLBsToGroups |->
             mapLBDifferenceByKey(acc.addLBsToGroups, Range(lb.Groups), {}, ptr),
         removeLBsFromGroups |-> acc.removeLBsFromGroups]

\* a variant that never takes a load balancer off a switch
reconcileLBNeverDetaches(acc, lb, existingByName, lbToSwitchNames, lbToRouterNames, lbToGroupNames) ==
    LET exists == lb.Name \in DOMAIN existingByName
        existingLB == existingByName[lb.Name]
        blb == IF exists THEN [buildLB(lb) EXCEPT !.UUID = existingLB.UUID]
               ELSE buildLB(lb)
        ptr == IF exists THEN [new |-> FALSE, id |-> existingLB.UUID]
               ELSE [new |-> TRUE, id |-> Len(acc.newlbs) + 1]
        existingRouters == IF exists THEN Lookup(lbToRouterNames, existingLB.UUID, {})
                           ELSE {}
        existingSwitches == IF exists THEN Lookup(lbToSwitchNames, existingLB.UUID, {})
                            ELSE {}
        existingGroups == IF exists THEN Lookup(lbToGroupNames, existingLB.UUID, {})
                          ELSE {}
        wantRouters == Range(lb.Routers)
        wantSwitches == Range(lb.Switches)
        wantGroups == Range(lb.Groups)
    IN  [toDelete |-> IF exists THEN acc.toDelete \ {existingLB.UUID} ELSE acc.toDelete,
         existinglbs |-> IF exists THEN Append(acc.existinglbs, blb) ELSE acc.existinglbs,
         newlbs |-> IF exists THEN acc.newlbs ELSE Append(acc.newlbs, blb),
         addLBsToSwitch |->
             mapLBDifferenceByKey(acc.addLBsToSwitch, wantSwitches, existingSwitches, ptr),
         removeLBsFromSwitch |-> acc.removeLBsFromSwitch,
         addLBsToRouter |->
             mapLBDifferenceByKey(acc.addLBsToRouter, wantRouters, existingRouters, ptr),
         removesLBsFromRouter |->
             mapLBDifferenceByKey(acc.removesLBsFromRouter, existingRouters, wantRouters,
                                  ptr),
         addLBsToGroups |->
             mapLBDifferenceByKey(acc.addLBsToGroups, wantGroups, existingGroups, ptr),
         removeLBsFromGroups |->
             mapLBDifferenceByKey(acc.removeLBsFromGroups, existingGroups, wantGroups, ptr)]

\* one turn of the loop over the desired load balancers; a load balancer in
\* the attachment maps is a pointer: to the row of its UUID, or to the entry of
\* newlbs that the creation gives a UUID
reconcileLB(acc, lb, existingByName, lbToSwitchNames, lbToRouterNames, lbToGroupNames) ==
    LET exists == lb.Name \in DOMAIN existingByName
        existingLB == existingByName[lb.Name]
        blb == IF exists THEN [buildLB(lb) EXCEPT !.UUID = existingLB.UUID]
               ELSE buildLB(lb)
        ptr == IF exists THEN [new |-> FALSE, id |-> existingLB.UUID]
               ELSE [new |-> TRUE, id |-> Len(acc.newlbs) + 1]
        existingRouters == IF exists THEN Lookup(lbToRouterNames, existingLB.UUID, {})
                           ELSE {}
        existingSwitches == IF exists THEN Lookup(lbToSwitchNames, existingLB.UUID, {})
                            ELSE {}
        existingGroups == IF exists THEN Lookup(lbToGroupNames, existingLB.UUID, {})
                          ELSE {}
        wantRouters == Range(lb.Routers)
        wantSwitches == Range(lb.Switches)
        wantGroups == Range(lb.Groups)
    IN  [toDelete |-> IF exists THEN acc.toDelete \ {existingLB.UUID} ELSE acc.toDelete,
         existinglbs |-> IF exists THEN Append(acc.existinglbs, blb) ELSE acc.existinglbs,
         newlbs |-> IF exists THEN acc.newlbs ELSE Append(acc.newlbs, blb),
         addLBsToSwitch |->
             mapLBDifferenceByKey(acc.addLBsToSwitch, wantSwitches, existingSwitches, ptr),
         removeLBsFromSwitch |->
             mapLBDifferenceByKey(acc.removeLBsFromSwitch, existingSwitches, wantSwitches,
                                  ptr),
         addLBsToRouter |->
             mapLBDifferenceByKey(acc.addLBsToRouter, wantRouters, existingRouters, ptr),
         removesLBsFromRouter |->
             mapLBDifferenceByKey(acc.removesLBsFromRouter, existingRouters, wantRouters,
                                  ptr),
         addLBsToGroups |->
             mapLBDifferenceByKey(acc.addLBsToGroups, wantGroups, existingGroups, ptr),
         removeLBsFromGroups |->
             mapLBDifferenceByKey(acc.removeLBsFromGroups, existingGroups, wantGroups, ptr)]

\* the loop over the desired load balancers; lists holds what listSwitches,
\* listRouters and listGroups returned
RECURSIVE reconcileLBs(_, _, _, _)
reconcileLBs(LBs, toDelete, existingByName, lists) ==
    IF LBs = <<>> THEN [NoOps EXCEPT !.toDelete = toDelete]
    ELSE CHOOSE ops \in
             {reconcileLB(acc, LBs[Len(LBs)], existingByName, lists.lbToSwitchNames,
                          lists.lbToRouterNames, lists.lbToGroupNames) :
                  acc \in {reconcileLBs(SubSeq(LBs, 1, Len(LBs) - 1), toDelete,
                                        existingByName, lists)}} : TRUE

\* lines 44-110: the operations EnsureLBs wants, from the rows it was handed
\* (in the order the client returned them) and the database it lists
plan(db, existing, LBs) ==
    CHOOSE ops \in
        {reconcileLBs(LBs, idx.toDelete, idx.existingByName, lists) :
             idx \in {indexExisting(existing)},
             lists \in {[lbToSwitchNames |-> listSwitches(db),
                         lbToRouterNames |-> listRouters(db),
                         lbToGroupNames |-> listGroups(db)]}} : TRUE

-----------------------------------------------------------------------------
(* EnsureLBs: building the operations and committing them. *)

\* the UUID the database gives the i-th created row: the i-th unused one
freshUUID(db, i) ==
    LET free == UUIDs \ DOMAIN db.LoadBalancer
    IN  CHOOSE u \in free : Cardinality({v \in free : v < u}) = i - 1

\* the UUID behind a pointer to a load balancer once the creations are applied
deref(db, ptr) == IF ptr.new THEN freshUUID(db, ptr.id) ELSE ptr.id

\* CreateOrUpdateLoadBalancersOps: each row of existinglbs gets the built content
updateRows(table, existinglbs) ==
    [u \in DOMAIN table |->
        LET hits == {i \in DOMAIN existinglbs : existinglbs[i].UUID = u}
        IN  IF hits = {} THEN table[u]
            ELSE existinglbs[CHOOSE i \in hits : \A j \in hits : j <= i]]

\* CreateLoadBalancersOps: each entry of newlbs becomes a row with a new UUID
createRows(db, table, newlbs) ==
    [u \in {freshUUID(db, i) : i \in DOMAIN newlbs} |->
        [newlbs[CHOOSE i \in DOMAIN newlbs : freshUUID(db, i) = u] EXCEPT !.UUID = u]]
    @@ table

\* DeleteLoadBalancersOps: the rows of toDelete leave the table
deleteRows(table, toDelete) == [u \in DOMAIN table \ toDelete |-> table[u]]

\* Add...Ops then Remove...Ops on the load_balancer column of every target;
\* the column holds weak references, so a deleted row leaves it as well
attachRows(db, table, add, remove, toDelete) ==
    [n \in DOMAIN table |->
        ((table[n] \cup {deref(db, p) : p \in Range(Lookup(add, n, <<>>))})
            \ {deref(db, p) : p \in Range(Lookup(remove, n, <<>>))}) \ toDelete]

\* the effect of the committed transaction
transact(db, ops) ==
    [LoadBalancer |->
         deleteRows(createRows(db, updateRows(db.LoadBalancer, ops.existinglbs),
                               ops.newlbs),
                    ops.toDelete),
     LogicalSwitch |->
         attachRows(db, db.LogicalSwitch, ops.addLBsToSwitch, ops.removeLBsFromSwitch,
                    ops.toDelete),
     LogicalRouter |->
         attachRows(db, db.LogicalRouter, ops.addLBsToRouter, ops.removesLBsFromRouter,
                    ops.toDelete),
     LoadBalancerGroup |->
         attachRows(db, db.LoadBalancerGroup, ops.addLBsToGroups, ops.removeLBsFromGroups,
                    ops.toDelete)]

\* an attach or detach operation cannot be built for a target that is not found
targetNotFound(db, ops) ==
    \/ (DOMAIN ops.addLBsToSwitch \cup DOMAIN ops.removeLBsFromSwitch)
           \ DOMAIN db.LogicalSwitch # {}
    \/ (DOMAIN ops.addLBsToRouter \cup DOMAIN ops.removesLBsFromRouter)
           \ DOMAIN db.LogicalRouter # {}
    \/ (DOMAIN ops.addLBsToGroups \cup DOMAIN ops.removeLBsFromGroups)
           \ DOMAIN db.LoadBalancerGroup # {}

\* the outcome of a call: the database, the error, the transactions committed
\* or attempted
outcome(db, err, transactions) ==
    [err |-> err, db |-> db, transactions |-> transactions]

\* a variant that commits the rows before it builds the attachments
buildAndCommitRowsFirst(db, ops, fail) ==
    LET rows == [NoOps EXCEPT !.existinglbs = ops.existinglbs, !.newlbs = ops.newlbs]
    IN  IF fail = "buildOps" THEN outcome(db, "buildOps", 0)
        ELSE IF targetNotFound(db, ops) THEN outcome(transact(db, rows), "notFound", 1)
        ELSE IF fail = "transact" THEN outcome(db, "transact", 1)
        ELSE outcome(transact(db, ops), "", 1)

\* lines 112-210: every operation is built, then one TransactAndCheck
buildAndCommit(db, ops, fail) ==
    IF fail = "buildOps" THEN outcome(db, "buildOps", 0)
    ELSE IF targetNotFound(db, ops) THEN outcome(db, "notFound", 0)
    ELSE IF fail = "transact" THEN outcome(db, "transact", 1)
    ELSE outcome(transact(db, ops), "", 1)

\* EnsureLBs; existing is what FindLoadBalancersByExternalIDs returned, fail
\* the step the database client fails, if any
EnsureLBs(db, existing, LBs, fail) ==
    IF fail \in {"listSwitches", "listRouters", "listGroups"}
    THEN outcome(db, fail, 0)
    ELSE CHOOSE r \in {buildAndCommit(db, ops, fail) : ops \in {plan(db, existing, LBs)}} :
             TRUE

-----------------------------------------------------------------------------
(* The load-balancer reconciler as a state machine. *)

\* the number of load balancers named by the operations of the maps
Pointers(maps) ==
    Cardinality(UNION {UNION {{<<i, k, j>> : j \in DOMAIN maps[i][k]} :
                                  k \in DOMAIN maps[i]} : i \in DOMAIN maps})

\* what a call built: the rows it updates, the number of rows it creates, the
\* rows it deletes and the numbers of load balancers it attaches and detaches;
\* nothing when a listing step failed
built(db, existing, LBs, fail) ==
    IF fail \in {"listSwitches", "listRouters", "listGroups"}
    THEN [updated |-> {}, created |-> 0, deleted |-> {}, attaches |-> 0, detaches |-> 0]
    ELSE CHOOSE b \in
             {[updated |-> {ops.existinglbs[i].UUID : i \in DOMAIN ops.existinglbs},
               created |-> Len(ops.newlbs),
               deleted |-> {row \in Range(existing) : row.UUID \in ops.toDelete},
               attaches |-> Pointers(<<ops.addLBsToSwitch, ops.addLBsToRouter,
                                       ops.addLBsToGroups>>),
               detaches |-> Pointers(<<ops.removeLBsFromSwitch, ops.removesLBsFromRouter,
                                       ops.removeLBsFromGroups>>)] :
                  ops \in {plan(db, existing, LBs)}} : TRUE

NoLBCall ==
    [err |-> "", fail |-> "", externalIDs |-> [owner |-> ""], LBs |-> <<>>,
     called |-> FALSE, transactions |-> 0, updated |-> {}, created |-> 0, deleted |-> {},
     attaches |-> 0, detaches |-> 0]

\* a database with its switches, routers and groups and no load balancer
InitLB ==
    /\ nb = [LoadBalancer |-> <<>>,
             LogicalSwitch |-> [n \in SwitchNames |-> {}],
             LogicalRouter |-> [n \in RouterNames |-> {}],
             LoadBalancerGroup |-> [n \in GroupNames |-> {}]]
    /\ lastLB = NoLBCall

\* one call of EnsureLBs, serialized with every other call; the client
\* returns the existing rows in any order
EnsureLBsCall(externalIDs, LBs, fail) ==
    \E existing \in Orderings(FindLoadBalancersByExternalIDs(nb, externalIDs)) :
        /\ Len(plan(nb, existing, LBs).newlbs)
               <= Cardinality(UUIDs \ DOMAIN nb.LoadBalancer)
        /\ \E r \in {EnsureLBs(nb, existing, LBs, fail)},
                 b \in {built(nb, existing, LBs, fail)} :
              /\ nb' = r.db
              /\ lastLB' = [err |-> r.err, fail |-> fail, externalIDs |-> externalIDs,
                            LBs |-> LBs, called |-> TRUE, transactions |-> r.transactions,
                            updated |-> b.updated, created |-> b.created,
                            deleted |-> b.deleted, attaches |-> b.attaches,
                            detaches |-> b.detaches]
              /\ UNCHANGED <<outsideLB, concurrentVars>>

NextLB ==
    \/ \E externalIDs \in Tags :
          \E LBs \in DesiredLists(externalIDs, MaxLBs) :
              EnsureLBsCall(externalIDs, LBs, "")
    \/ \E externalIDs \in Tags, fail \in FailStages :
          \E LBs \in FailingLists(externalIDs) :
              EnsureLBsCall(externalIDs, LBs, fail)

\* the most load balancers of a desired list that repeats a name
MaxCollision == 3

\* one owner whose desired lists may name "A" up to MaxCollision times, which
\* leaves as many rows of the name under its tag
CollisionLists ==
    {LBs \in DesiredLists(FirstOwner, MaxCollision) :
        \A i \in DOMAIN LBs : LBs[i] \in {LB("A", FirstOwner, Attached), LB("B", FirstOwner, Attached)}}

NextCollision ==
    \E LBs \in CollisionLists : EnsureLBsCall(FirstOwner, LBs, "")

-----------------------------------------------------------------------------
(* DeleteLBs and DeleteLoadBalancerVIPs. *)

\* longest list of UUIDs handed to DeleteLBs, longest list of entries handed to
\* DeleteLoadBalancerVIPs, and longest list of VIPs of an entry
MaxDeleted == 2

MaxEntries == 2

MaxVIPs == 2

\* the most bulk calls of one behaviour
MaxBulkCalls == 1

\* the DeleteVIPEntry struct
DeleteVIPEntries == [LBUUID : UUIDs, VIPs : UNION {[1..m -> Sources] : m \in 0..MaxVIPs}]

\* libovsdbops.DeleteLoadBalancers: the rows leave the table and, the
\* references being weak, every switch, router and group
deleteLoadBalancers(db, uuids) ==
    [LoadBalancer |-> deleteRows(db.LoadBalancer, Range(uuids)),
     LogicalSwitch |-> attachRows(db, db.LogicalSwitch, <<>>, <<>>, Range(uuids)),
     LogicalRouter |-> attachRows(db, db.LogicalRouter, <<>>, <<>>, Range(uuids)),
     LoadBalancerGroup |-> attachRows(db, db.LoadBalancerGroup, <<>>, <<>>, Range(uuids))]

\* a variant without the early return on an empty list
DeleteLBsAlwaysTransacts(db, uuids, fail) ==
    IF fail = "transact" THEN outcome(db, "transact", 1)
    ELSE outcome(deleteLoadBalancers(db, uuids), "", 1)

\* DeleteLBs; fail is the step the database client fails, if any
DeleteLBs(db, uuids, fail) ==
    IF Len(uuids) = 0 THEN outcome(db, "", 0)
    ELSE IF fail = "transact" THEN outcome(db, "transact", 1)
    ELSE outcome(deleteLoadBalancers(db, uuids), "", 1)

\* the effect of the committed RemoveLoadBalancerVipsOps: the VIPs of each
\* entry leave the vips of its load balancer
RECURSIVE removeVips(_, _)
removeVips(table, toRemove) ==
    IF toRemove = <<>> THEN table
    ELSE LET entry == toRemove[1]
             removed == IF entry.LBUUID \in DOMAIN table
                        THEN [table EXCEPT ![entry.LBUUID].Vips =
                                  [v \in DOMAIN @ \ Range(entry.VIPs) |-> @[v]]]
                        ELSE table
         IN  removeVips(removed, Tail(toRemove))

\* a variant that commits the removal of each entry on its own
RECURSIVE DeleteLoadBalancerVIPsOneByOne(_, _, _)
DeleteLoadBalancerVIPsOneByOne(db, toRemove, fail) ==
    IF toRemove = <<>> THEN outcome(db, "", 0)
    ELSE IF Len(toRemove) = 1 /\ fail # ""
    THEN outcome(db, fail, 1)
    ELSE LET first == [db EXCEPT !.LoadBalancer = removeVips(@, <<toRemove[1]>>)]
             rest == DeleteLoadBalancerVIPsOneByOne(first, Tail(toRemove), fail)
         IN  outcome(rest.db, rest.err, rest.transactions + 1)

\* DeleteLoadBalancerVIPs: the operations of every entry are built, then one
\* TransactAndCheck; fail is the step the database client fails, if any
DeleteLoadBalancerVIPs(db, toRemove, fail) ==
    IF toRemove # <<>> /\ fail = "buildOps" THEN outcome(db, "buildOps", 0)
    ELSE IF fail = "transact" THEN outcome(db, "transact", 1)
    ELSE outcome([db EXCEPT !.LoadBalancer = removeVips(@, toRemove)], "", 1)

\* the rules of the load balancers that the bulk operations work on
TwoRules ==
    <<[Source |-> "10.0.0.1:80", Targets |-> <<"10.1.0.1:8080">>],
      [Source |-> "10.0.0.2:80", Targets |-> <<"10.1.0.1:8080", "10.1.0.2:8080">>]>>

\* the desired lists that fill the database: "A", "B" or both, with two rules
BulkLists ==
    {<<[LB("A", FirstOwner, Attached) EXCEPT !.Rules = TwoRules]>>,
     <<[LB("B", FirstOwner, Moved) EXCEPT !.Rules = TwoRules]>>,
     <<[LB("A", FirstOwner, Attached) EXCEPT !.Rules = TwoRules],
       [LB("B", FirstOwner, Moved) EXCEPT !.Rules = TwoRules]>>}

NoBulkCall ==
    [err |-> "", calls |-> 0, fail |-> "", op |-> "none", transactions |-> 0,
     uuids |-> <<>>, toRemove |-> <<>>]

InitBulk == lastBulk = NoBulkCall

\* one call of DeleteLBs; no EnsureLBs call is the latest call any more
DeleteLBsCall(uuids, fail) ==
    /\ lastBulk.calls < MaxBulkCalls
    /\ \E r \in {DeleteLBs(nb, uuids, fail)} :
           /\ nb' = r.db
           /\ lastBulk' = [err |-> r.err, calls |-> lastBulk.calls + 1, fail |-> fail,
                           op |-> "DeleteLBs", transactions |-> r.transactions,
                           uuids |-> uuids, toRemove |-> <<>>]
    /\ lastLB' = NoLBCall
    /\ UNCHANGED outsideBulk

\* one call of DeleteLoadBalancerVIPs
DeleteLoadBalancerVIPsCall(toRemove, fail) ==
    /\ lastBulk.calls < MaxBulkCalls
    /\ \E r \in {DeleteLoadBalancerVIPs(nb, toRemove, fail)} :
           /\ nb' = r.db
           /\ lastBulk' = [err |-> r.err, calls |-> lastBulk.calls + 1, fail |-> fail,
                           op |-> "DeleteLoadBalancerVIPs", transactions |-> r.transactions,
                           uuids |-> <<>>, toRemove |-> toRemove]
    /\ lastLB' = NoLBCall
    /\ UNCHANGED outsideBulk

\* the owner fills the database, and its load balancers and VIPs are deleted
NextBulk ==
    \/ \E LBs \in BulkLists : EnsureLBsCall(FirstOwner, LBs, "")
    \/ \E uuids \in UNION {[1..m -> UUIDs] : m \in 0..MaxDeleted}, fail \in {"", "transact"} :
          DeleteLBsCall(uuids, fail)
    \/ \E toRemove \in UNION {[1..m -> DeleteVIPEntries] : m \in 0..MaxEntries} :
          \E fail \in {"", "buildOps", "transact"} :
              DeleteLoadBalancerVIPsCall(toRemove, fail)

-----------------------------------------------------------------------------
(* EnsureLBs under two concurrent callers with disjoint ownership tags: every  *)
(* read of the database and the commit are steps of their own.                 *)

\* how often the two owners enter EnsureLBs together
MaxRounds == 2

\* an owner outside EnsureLBs
NoCaller ==
    [err |-> "", LBs |-> <<>>, lbToSwitchNames |-> <<>>, lbToRouterNames |-> <<>>,
     lbToGroupNames |-> <<>>, pc |-> "idle", found |-> <<>>]

InitConcurrent ==
    /\ start = [LoadBalancer |-> <<>>,
                LogicalSwitch |-> [n \in SwitchNames |-> {}],
                LogicalRouter |-> [n \in RouterNames |-> {}],
                LoadBalancerGroup |-> [n \in GroupNames |-> {}]]
    /\ callers = [o \in Tags |-> NoCaller]
    /\ rounds = 0

\* both owners call EnsureLBs, each with a desired list
Enter(LBs1, LBs2) ==
    /\ rounds < MaxRounds
    /\ \A o \in Tags : callers[o].pc \in {"idle", "done"}
    /\ Cardinality(DOMAIN nb.LoadBalancer) + Len(LBs1) + Len(LBs2) <= MaxUUID
    /\ start' = nb
    /\ callers' = [o \in Tags |->
                       [NoCaller EXCEPT !.LBs = IF o = FirstOwner THEN LBs1 ELSE LBs2,
                                        !.pc = "find"]]
    /\ rounds' = rounds + 1
    /\ UNCHANGED <<outsideLB, lbVars>>

\* line 44: the owner reads its rows, in the order the client returns them
Find(o) ==
    /\ callers[o].pc = "find"
    /\ \E existing \in Orderings(FindLoadBalancersByExternalIDs(nb, o)) :
           callers' = [callers EXCEPT ![o].found = existing, ![o].pc = "listSwitches"]
    /\ UNCHANGED <<outsideLB, lbVars, start, rounds>>

\* line 49
ListSwitches(o) ==
    /\ callers[o].pc = "listSwitches"
    /\ callers' = [callers EXCEPT ![o].lbToSwitchNames = listSwitches(nb),
                                  ![o].pc = "listRouters"]
    /\ UNCHANGED <<outsideLB, lbVars, start, rounds>>

\* line 53
ListRouters(o) ==
    /\ callers[o].pc = "listRouters"
    /\ callers' = [callers EXCEPT ![o].lbToRouterNames = listRouters(nb),
                                  ![o].pc = "listGroups"]
    /\ UNCHANGED <<outsideLB, lbVars, start, rounds>>

\* line 57
ListGroups(o) ==
    /\ callers[o].pc = "listGroups"
    /\ callers' = [callers EXCEPT ![o].lbToGroupNames = listGroups(nb),
                                  ![o].pc = "commit"]
    /\ UNCHANGED <<outsideLB, lbVars, start, rounds>>

\* a variant that also deletes every load balancer the owner saw on a switch
callerOpsDeletesListed(c) ==
    CHOOSE ops \in
        {reconcileLBs(c.LBs, idx.toDelete \cup DOMAIN c.lbToSwitchNames, idx.existingByName,
                      [lbToSwitchNames |-> c.lbToSwitchNames,
                       lbToRouterNames |-> c.lbToRouterNames,
                       lbToGroupNames |-> c.lbToGroupNames]) :
             idx \in {indexExisting(c.found)}} : TRUE

\* lines 62-110: the operations the owner wants, from what it has read
callerOps(c) ==
    CHOOSE ops \in
        {reconcileLBs(c.LBs, idx.toDelete, idx.existingByName,
                      [lbToSwitchNames |-> c.lbToSwitchNames,
                       lbToRouterNames |-> c.lbToRouterNames,
                       lbToGroupNames |-> c.lbToGroupNames]) :
             idx \in {indexExisting(c.found)}} : TRUE

\* lines 112-210: the owner builds its operations and commits them to the
\* database as it is now
Commit(o) ==
    /\ callers[o].pc = "commit"
    /\ \E r \in {buildAndCommit(nb, ops, "") : ops \in {callerOps(callers[o])}} :
           /\ nb' = r.db
           /\ callers' = [callers EXCEPT ![o].err = r.err, ![o].pc = "done"]
    /\ UNCHANGED <<outsideLB, lastLB, start, rounds>>

NextConcurrent ==
    \/ \E LBs1 \in DesiredLists(FirstOwner, MaxLBs), LBs2 \in DesiredLists(SecondOwner, MaxLBs) :
          Enter(LBs1, LBs2)
    \/ \E o \in Tags : Find(o)
    \/ \E o \in Tags : ListSwitches(o)
    \/ \E o \in Tags : ListRouters(o)
    \/ \E o \in Tags : ListGroups(o)
    \/ \E o \in Tags : Commit(o)

-----------------------------------------------------------------------------
(* LoadBalancersEqualNoUUID. *)

\* longest list handed to LoadBalancersEqualNoUUID
MaxCompared == 2

\* the zero value of the LB struct
ZeroLB ==
    [Protocol |-> "", Switches |-> <<>>, Routers |-> <<>>, Groups |-> <<>>, Name |-> "",
     UUID |-> NoUUID, ExternalIDs |-> [owner |-> ""],
     Opts |-> [Unidling |-> FALSE, Affinity |-> FALSE, SkipSNAT |-> FALSE], Rules |-> <<>>]

\* the load balancers of the compared lists: "A" under three UUIDs, "B" under
\* two, and "A" with other switches, routers, groups and protocol
ComparedLBs ==
    {[LB("A", FirstOwner, Attached) EXCEPT !.UUID = u] : u \in {NoUUID, 1, 2}}
        \cup {[LB("B", FirstOwner, Attached) EXCEPT !.UUID = u] : u \in {NoUUID, 1}}
        \cup {LB("A", FirstOwner, Moved)}

ComparedLists(n) == UNION {[1..m -> ComparedLBs] : m \in 0..n}

\* make([]LB, n): n zero values
make(n) == [i \in 1..n |-> ZeroLB]

\* the loop "for _, lb := range lbs": lb is a copy of the element, its UUID is
\* cleared and it is appended to new
RECURSIVE appendCleared(_, _)
appendCleared(new, lbs) ==
    IF lbs = <<>> THEN new
    ELSE appendCleared(Append(new, [Head(lbs) EXCEPT !.UUID = NoUUID]), Tail(lbs))

\* a variant that compares the lists as they are
LoadBalancersEqualWithUUID(lbs1, lbs2) ==
    IF Len(lbs1) # Len(lbs2) THEN [ret |-> FALSE, lbs1 |-> lbs1, lbs2 |-> lbs2]
    ELSE [ret |-> make(Len(lbs1)) \o lbs1 = make(Len(lbs2)) \o lbs2,
          lbs1 |-> lbs1, lbs2 |-> lbs2]

\* the return value and the two lists of the caller as the call leaves them
LoadBalancersEqualNoUUID(lbs1, lbs2) ==
    IF Len(lbs1) # Len(lbs2) THEN [ret |-> FALSE, lbs1 |-> lbs1, lbs2 |-> lbs2]
    ELSE [ret |-> appendCleared(make(Len(lbs1)), lbs1)
                      = appendCleared(make(Len(lbs2)), lbs2),
          lbs1 |-> lbs1, lbs2 |-> lbs2]

NoComparison ==
    [ret |-> FALSE, called |-> FALSE, lbs1 |-> <<>>, lbs2 |-> <<>>, in1 |-> <<>>,
     in2 |-> <<>>]

\* no list has been handed in
InitEqual == comparison = NoComparison

\* a caller holds two lists to compare
InitCompared ==
    \E lbs1, lbs2 \in ComparedLists(MaxCompared) :
        comparison = [NoComparison EXCEPT !.lbs1 = lbs1, !.lbs2 = lbs2, !.in1 = lbs1,
                                          !.in2 = lbs2]

\* the call of LoadBalancersEqualNoUUID on the two lists
Compare ==
    /\ ~comparison.called
    /\ \E r \in {LoadBalancersEqualNoUUID(comparison.lbs1, comparison.lbs2)} :
           comparison' = [comparison EXCEPT !.ret = r.ret, !.called = TRUE,
                                            !.lbs1 = r.lbs1, !.lbs2 = r.lbs2]
    /\ UNCHANGED outsideEqual

NextEqual == Compare

-----------------------------------------------------------------------------
(* syncNAD and GetActiveNetworkForNamespace under the controller's lock:    *)
(* every write of syncNAD and every read of GetActiveNetworkForNamespace is  *)
(* a step of its own.                                                        *)

\* how many syncNAD calls the worker makes
MaxSyncs == 3

\* the concurrent callers of GetActiveNetworkForNamespace
Callers == {"c1", "c2"}

\* the worker outside syncNAD
NoWorker ==
    [nad |-> NilNAD, key |-> NoKey, err |-> "", oldNetwork |-> NilNet,
     ensureNetwork |-> NilNet, pc |-> "idle"]

\* a caller outside GetActiveNetworkForNamespace
NoReader ==
    [name |-> "", key |-> NoKey, namespace |-> "", net |-> NilNet, kind |-> "", pc |-> "idle"]

InitLock ==
    /\ registry = [nads |-> [k \in Keys |-> ""],
                   primaryNADs |-> [ns \in Namespaces |-> NoKey], networks |-> <<>>]
    /\ stable = registry
    /\ mutex = [readers |-> {}, writer |-> FALSE]
    /\ worker = NoWorker
    /\ readers = [r \in Callers |-> NoReader]
    /\ syncs = 0

\* sync.RWMutex: Lock waits for the writer and for every reader
mayLock(m) == ~m.writer /\ m.readers = {}

\* a variant in which RLock does not wait for the writer
mayRLockAnyway(m) == TRUE

\* sync.RWMutex: RLock waits for the writer
mayRLock(m) == ~m.writer

\* lines 260-281: the worker enters syncNAD and parses the declaration; a
\* declaration that does not parse ends the call before the lock
BeginSync(key, nad) ==
    /\ worker.pc = "idle"
    /\ syncs < MaxSyncs
    /\ syncs' = syncs + 1
    /\ worker' = IF ~nad.nil /\ ParseNADInfo(nad).err THEN NoWorker
                 ELSE [NoWorker EXCEPT !.nad = nad, !.key = key, !.pc = "lock"]
    /\ UNCHANGED <<registry, stable, mutex, readers, outsideLock>>

\* line 283: c.Lock()
Lock ==
    /\ worker.pc = "lock"
    /\ mayLock(mutex)
    /\ mutex' = [mutex EXCEPT !.writer = TRUE]
    /\ worker' = [worker EXCEPT !.pc = "resolve"]
    /\ UNCHANGED <<registry, stable, readers, syncs, outsideLock>>

\* the deferred c.Unlock() of a return
unlocked == [mutex EXCEPT !.writer = FALSE]

\* lines 285-328: the primary NAD guard and the switch on currentNetwork
Resolve ==
    /\ worker.pc = "resolve"
    /\ LET key == worker.key
           namespace == SplitMetaNamespaceKey(key).namespace
           nadNetwork == IF worker.nad.nil THEN NilNet ELSE ParseNADInfo(worker.nad).net
           res == resolveNetwork(getNetwork(registry.networks, nadNetwork.name), nadNetwork,
                                 previousNetwork(registry, key, nadNetwork.name), key)
       IN  IF primaryConflict(registry.primaryNADs[namespace], nadNetwork, key)
           THEN /\ worker' = [NoWorker EXCEPT !.err = "primary"]
                /\ mutex' = unlocked
                /\ stable' = registry
           ELSE /\ worker' = [worker EXCEPT !.err = res.err, !.oldNetwork = res.oldNetwork,
                                            !.ensureNetwork = res.ensureNetwork,
                                            !.pc = "remove"]
                /\ UNCHANGED <<mutex, stable>>
    /\ UNCHANGED <<registry, readers, syncs, outsideLock>>

\* lines 332-340: the NAD leaves the old network
RemoveFromOld ==
    /\ worker.pc = "remove"
    /\ registry' = [registry EXCEPT
                       !.networks = removeFromOldNetwork(registry.networks, worker.oldNetwork,
                                                         worker.key).networks]
    /\ worker' = [worker EXCEPT !.pc = IF worker.ensureNetwork.nil THEN "deleteNAD"
                                       ELSE "setNAD"]
    /\ UNCHANGED <<stable, mutex, readers, syncs, outsideLock>>

\* line 344: delete(c.nads, key)
DeleteNAD ==
    /\ worker.pc = "deleteNAD"
    /\ registry' = [registry EXCEPT !.nads[worker.key] = ""]
    /\ worker' = [worker EXCEPT !.pc = "clearPrimary"]
    /\ UNCHANGED <<stable, mutex, readers, syncs, outsideLock>>

\* lines 345-348: the primary entry of the deleted NAD goes and the call returns
ClearPrimary ==
    /\ worker.pc = "clearPrimary"
    /\ registry' = [registry EXCEPT
                       !.primaryNADs = clearPrimary(registry.primaryNADs,
                                                    SplitMetaNamespaceKey(worker.key).namespace,
                                                    worker.key)]
    /\ worker' = [NoWorker EXCEPT !.err = worker.err]
    /\ mutex' = unlocked
    /\ stable' = registry'
    /\ UNCHANGED <<readers, syncs, outsideLock>>

\* lines 352-353: the NAD joins the network to ensure
SetNAD ==
    /\ worker.pc = "setNAD"
    /\ registry' = [registry EXCEPT !.nads[worker.key] = worker.ensureNetwork.name]
    /\ worker' = [worker EXCEPT !.ensureNetwork = AddNADs(worker.ensureNetwork, worker.key),
                                !.pc = "trackPrimary"]
    /\ UNCHANGED <<stable, mutex, readers, syncs, outsideLock>>

\* lines 355-362: track primary NAD
TrackPrimary ==
    /\ worker.pc = "trackPrimary"
    /\ registry' = [registry EXCEPT
                       !.primaryNADs = trackPrimary(registry.primaryNADs,
                                                    SplitMetaNamespaceKey(worker.key).namespace,
                                                    worker.key, worker.ensureNetwork)]
    /\ worker' = [worker EXCEPT !.pc = "ensure"]
    /\ UNCHANGED <<stable, mutex, readers, syncs, outsideLock>>

\* variant: the call returns without ensuring the network
EnsureSkipped ==
    /\ worker.pc = "ensure"
    /\ worker' = NoWorker
    /\ mutex' = unlocked
    /\ stable' = registry
    /\ UNCHANGED <<registry, readers, syncs, outsideLock>>

\* lines 365-366: the network is ensured and the call returns
Ensure ==
    /\ worker.pc = "ensure"
    /\ registry' = [registry EXCEPT
                       !.networks = EnsureNetwork(registry.networks, worker.ensureNetwork)]
    /\ worker' = NoWorker
    /\ mutex' = unlocked
    /\ stable' = registry'
    /\ UNCHANGED <<readers, syncs, outsideLock>>

\* line 385: a caller enters GetActiveNetworkForNamespace
BeginGetActive(r, namespace) ==
    /\ readers[r].pc = "idle"
    /\ readers' = [readers EXCEPT ![r] = [NoReader EXCEPT !.namespace = namespace,
                                                          !.pc = "rlock"]]
    /\ UNCHANGED <<registry, stable, mutex, worker, syncs, outsideLock>>

\* line 389: c.RLock() finds the lock taken and the caller waits
Wait(r) ==
    /\ readers[r].pc = "rlock"
    /\ ~mayRLock(mutex)
    /\ readers' = [readers EXCEPT ![r].pc = "waiting"]
    /\ UNCHANGED <<registry, stable, mutex, worker, syncs, outsideLock>>

\* line 389: c.RLock()
RLock(r) ==
    /\ readers[r].pc \in {"rlock", "waiting"}
    /\ mayRLock(mutex)
    /\ mutex' = [mutex EXCEPT !.readers = @ \cup {r}]
    /\ readers' = [readers EXCEPT ![r].pc = "readPrimary"]
    /\ UNCHANGED <<registry, stable, worker, syncs, outsideLock>>

\* the deferred c.RUnlock() of a return
runlocked(r) == [mutex EXCEPT !.readers = @ \ {r}]

\* line 391: primaryNAD := c.primaryNADs[namespace]; without a primary NAD
\* the caller turns to the UDN lister and returns
ReadPrimary(r) ==
    /\ readers[r].pc = "readPrimary"
    /\ LET primaryNAD == registry.primaryNADs[readers[r].namespace]
       IN  IF primaryNAD = NoKey
           THEN /\ readers' = [readers EXCEPT ![r].kind = "noPrimary", ![r].pc = "idle"]
                /\ mutex' = runlocked(r)
           ELSE /\ readers' = [readers EXCEPT ![r].key = primaryNAD, ![r].pc = "readNAD"]
                /\ UNCHANGED mutex
    /\ UNCHANGED <<registry, stable, worker, syncs, outsideLock>>

\* lines 394-399: netName := c.nads[primaryNAD], and the panic
ReadNAD(r) ==
    /\ readers[r].pc = "readNAD"
    /\ LET netName == registry.nads[readers[r].key]
       IN  IF netName = ""
           THEN /\ readers' = [readers EXCEPT ![r].kind = "panic", ![r].pc = "idle"]
                /\ mutex' = runlocked(r)
           ELSE /\ readers' = [readers EXCEPT ![r].name = netName, ![r].pc = "getNetwork"]
                /\ UNCHANGED mutex
    /\ UNCHANGED <<registry, stable, worker, syncs, outsideLock>>

\* lines 400-404: the network is read, copied and returned
GetNetwork(r) ==
    /\ readers[r].pc = "getNetwork"
    /\ LET network == getNetwork(registry.networks, readers[r].name)
       IN  readers' = [readers EXCEPT
                          ![r].net = IF network.nil THEN NilNet
                                     ELSE copyWithPrimaryNAD(network, readers[r].key).net,
                          ![r].kind = IF network.nil THEN "nilderef" ELSE "network",
                          ![r].pc = "idle"]
    /\ mutex' = runlocked(r)
    /\ UNCHANGED <<registry, stable, worker, syncs, outsideLock>>

NextLock ==
    \/ \E key \in Keys, nad \in NADInputs : BeginSync(key, nad)
    \/ Lock
    \/ Resolve
    \/ RemoveFromOld
    \/ DeleteNAD
    \/ ClearPrimary
    \/ SetNAD
    \/ TrackPrimary
    \/ Ensure
    \/ \E r \in Callers, namespace \in Namespaces : BeginGetActive(r, namespace)
    \/ \E r \in Callers : Wait(r)
    \/ \E r \in Callers : RLock(r)
    \/ \E r \in Callers : ReadPrimary(r)
    \/ \E r \in Callers : ReadNAD(r)
    \/ \E r \in Callers : GetNetwork(r)

-----------------------------------------------------------------------------
(* nadController.syncAll: the initial pass over the listed declarations. *)

\* longest listing handed to syncAll
MaxListed == 3

\* what the lister returns: declarations that parse or do not, each under its
\* key, and a declaration from which no key can be derived
Listed ==
    {[nad |-> nad, key |-> key, keyErr |-> FALSE] :
         nad \in GoodNADs \cup BadNADs, key \in Keys}
        \cup {[nad |-> nad, key |-> NoKey, keyErr |-> TRUE] : nad \in BadNADs}

\* the listings of at most n declarations, no two under one key
Listings(n) ==
    {l \in UNION {[1..m -> Listed] : m \in 0..n} :
        \A i, j \in DOMAIN l : (i # j /\ ~l[i].keyErr) => l[i].key # l[j].key}

\* a variant that goes on with the next declaration after an error of syncNAD
RECURSIVE syncListedKeepsGoing(_, _, _)
syncListedKeepsGoing(c, existingNADs, processed) ==
    IF existingNADs = <<>>
    THEN [nads |-> c.nads, primaryNADs |-> c.primaryNADs, networks |-> c.networks,
          err |-> "", processed |-> processed]
    ELSE LET item == Head(existingNADs)
         IN  IF item.keyErr
             THEN syncListedKeepsGoing(c, Tail(existingNADs), processed)
             ELSE LET r == syncNAD(c, item.key, item.nad)
                  IN  syncListedKeepsGoing(r, Tail(existingNADs), Append(processed, item))

\* lines 224-234: the loop over the listing; processed collects the items
\* handed to syncNAD
RECURSIVE syncListed(_, _, _)
syncListed(c, existingNADs, processed) ==
    IF existingNADs = <<>>
    THEN [nads |-> c.nads, primaryNADs |-> c.primaryNADs, networks |-> c.networks,
          err |-> "", processed |-> processed]
    ELSE LET item == Head(existingNADs)
         IN  IF item.keyErr
             THEN syncListed(c, Tail(existingNADs), processed)
             ELSE LET r == syncNAD(c, item.key, item.nad)
                  IN  IF r.err # ""
                      THEN [nads |-> r.nads, primaryNADs |-> r.primaryNADs,
                            networks |-> r.networks, err |-> r.err,
                            processed |-> Append(processed, item)]
                      ELSE syncListed(r, Tail(existingNADs), Append(processed, item))

\* nadController.syncAll: the controller after the pass, the error returned
\* ("" is nil) and the items handed to syncNAD
syncAll(c, existingNADs, listFail) ==
    IF listFail
    THEN [nads |-> c.nads, primaryNADs |-> c.primaryNADs, networks |-> c.networks,
          err |-> "list", processed |-> <<>>]
    ELSE syncListed(c, existingNADs, <<>>)

NoPass == [err |-> "", fail |-> FALSE, called |-> FALSE, processed |-> <<>>,
           listing |-> <<>>]

InitPass == pass = NoPass

\* Start: the initial sync, before the worker takes its first key
SyncAll(existingNADs, listFail) ==
    /\ ~pass.called
    /\ \E r \in {syncAll(ctrl, existingNADs, listFail)} :
           /\ nads' = r.nads
           /\ primaryNADs' = r.primaryNADs
           /\ networks' = r.networks
           /\ delivered' = [k \in Keys |->
                               IF \E i \in DOMAIN r.processed : r.processed[i].key = k
                               THEN DeclKind((CHOOSE item \in Range(r.processed) :
                                                 item.key = k).nad)
                               ELSE delivered[k]]
           /\ last' = [NoLast EXCEPT !.op = "syncAll", !.err = r.err]
           /\ pass' = [err |-> r.err, fail |-> listFail, called |-> TRUE,
                       processed |-> r.processed, listing |-> existingNADs]
    /\ UNCHANGED outsidePass

NextPass ==
    \E existingNADs \in Listings(MaxListed), listFail \in BOOLEAN :
        SyncAll(existingNADs, listFail)

-----------------------------------------------------------------------------
(* EnsureLBs under two concurrent callers with the same ownership tag: the     *)
(* function takes no lock, so the reads and the commit of one caller may fall  *)
(* between the reads and the commit of the other.                              *)

Racers == {"p1", "p2"}

\* the other of the two callers
Rival(p) == CHOOSE q \in Racers : q # p

\* a caller outside EnsureLBs
NoRacer ==
    [err |-> "", LBs |-> <<>>, lbToSwitchNames |-> <<>>, lbToRouterNames |-> <<>>,
     lbToGroupNames |-> <<>>, pc |-> "idle", found |-> <<>>, serial |-> FALSE]

\* the desired lists of the two callers: "A", "B", both or none
RaceLists ==
    {LBs \in UNION {[1..m -> {LB("A", FirstOwner, Attached), LB("B", FirstOwner, Attached)}] :
                       m \in 0..MaxLBs} :
        \A i, j \in DOMAIN LBs : i < j => LBs[i].Name = "A" /\ LBs[j].Name = "B"}

InitRace == racers = [p \in Racers |-> NoRacer]

\* both callers call EnsureLBs with the tag of the first owner
Race(LBs1, LBs2) ==
    /\ rounds < MaxRounds
    /\ \A p \in Racers : racers[p].pc \in {"idle", "done"}
    /\ Cardinality(DOMAIN nb.LoadBalancer) + Len(LBs1) + Len(LBs2) <= MaxUUID
    /\ start' = nb
    /\ racers' = [p \in Racers |->
                      [NoRacer EXCEPT !.LBs = IF p = "p1" THEN LBs1 ELSE LBs2,
                                      !.pc = "find"]]
    /\ rounds' = rounds + 1
    /\ UNCHANGED <<outsideRace, lbVars, callers>>

\* line 44: the caller reads the rows of the tag
RaceFind(p) ==
    /\ racers[p].pc = "find"
    /\ \E existing \in Orderings(FindLoadBalancersByExternalIDs(nb, FirstOwner)) :
           racers' = [racers EXCEPT ![p].found = existing, ![p].pc = "listSwitches",
                                    ![p].serial = (racers[Rival(p)].pc = "done")]
    /\ UNCHANGED <<outsideRace, lbVars, concurrentVars>>

\* line 49
RaceListSwitches(p) ==
    /\ racers[p].pc = "listSwitches"
    /\ racers' = [racers EXCEPT ![p].lbToSwitchNames = listSwitches(nb),
                                ![p].pc = "listRouters"]
    /\ UNCHANGED <<outsideRace, lbVars, concurrentVars>>

\* line 53
RaceListRouters(p) ==
    /\ racers[p].pc = "listRouters"
    /\ racers' = [racers EXCEPT ![p].lbToRouterNames = listRouters(nb),
                                ![p].pc = "listGroups"]
    /\ UNCHANGED <<outsideRace, lbVars, concurrentVars>>

\* line 57
RaceListGroups(p) ==
    /\ racers[p].pc = "listGroups"
    /\ racers' = [racers EXCEPT ![p].lbToGroupNames = listGroups(nb),
                                ![p].pc = "commit"]
    /\ UNCHANGED <<outsideRace, lbVars, concurrentVars>>

\* a variant in which the caller reads the rows of the tag again before it
\* builds its operations
racerOpsReadsAgain(c) ==
    CHOOSE ops \in
        {reconcileLBs(c.LBs, idx.toDelete, idx.existingByName,
                      [lbToSwitchNames |-> c.lbToSwitchNames,
                       lbToRouterNames |-> c.lbToRouterNames,
                       lbToGroupNames |-> c.lbToGroupNames]) :
             idx \in {indexExisting(CHOOSE existing \in
                                        Orderings(FindLoadBalancersByExternalIDs(nb, FirstOwner)) :
                                        TRUE)}} : TRUE

\* lines 62-110: the operations the caller wants, from what it has read
racerOps(c) == callerOps(c)

\* the UUIDs of rows that a caller has read, or that existed when the callers
\* entered, and that are deleted by now: the database hands out no UUID twice,
\* so no new row gets one of them while a caller still holds it
Retired ==
    (DOMAIN start.LoadBalancer
        \cup UNION {{racers[p].found[i].UUID : i \in DOMAIN racers[p].found} : p \in Racers})
    \ DOMAIN nb.LoadBalancer

\* the database with the retired UUIDs kept out of the unused ones
withRetired(db, retired) ==
    [db EXCEPT !.LoadBalancer =
        [u \in retired |-> [Name |-> "", UUID |-> u, ExternalIDs |-> <<>>]] @@ @]

\* the database without the retired UUIDs
withoutRetired(db, retired) ==
    [db EXCEPT !.LoadBalancer = [u \in DOMAIN @ \ retired |-> @[u]]]

\* lines 112-210: the caller builds its operations and commits them to the
\* database as it is now; an operation on a row that is gone changes nothing
RaceCommit(p) ==
    /\ racers[p].pc = "commit"
    /\ \E retired \in {Retired}, ops \in {racerOps(racers[p])} :
           /\ Len(ops.newlbs) <= Cardinality(UUIDs \ (DOMAIN nb.LoadBalancer \cup retired))
           /\ \E r \in {buildAndCommit(withRetired(nb, retired), ops, "")} :
                  /\ nb' = withoutRetired(r.db, retired)
                  /\ racers' = [racers EXCEPT ![p].err = r.err, ![p].pc = "done"]
    /\ UNCHANGED <<outsideRace, lastLB, concurrentVars>>

NextRace ==
    \/ \E LBs1 \in RaceLists, LBs2 \in RaceLists : Race(LBs1, LBs2)
    \/ \E p \in Racers : RaceFind(p)
    \/ \E p \in Racers : RaceListSwitches(p)
    \/ \E p \in Racers : RaceListRouters(p)
    \/ \E p \in Racers : RaceListGroups(p)
    \/ \E p \in Racers : RaceCommit(p)

-----------------------------------------------------------------------------
(* The worker of the nadController and the keys it tries again.  A sync    *)
(* that returns an error puts its key back on the queue; the key is synced *)
(* again with the declaration the lister then holds for it.                *)

InitRetry ==
    /\ rejected = [k \in Keys |-> NilNAD]
    /\ retried = NilNAD

\* what the queue remembers after syncNAD(key, nad) returned err: the key is
\* remembered with its declaration when it was rejected for a mismatch; another
\* key stays remembered only across the deletion of a key of its network
remember(key, nad, err) ==
    [k \in Keys |->
        IF k = key
        THEN IF err = "mismatch" THEN nad ELSE NilNAD
        ELSE IF nad.nil /\ ~rejected[k].nil /\ nads[key] = rejected[k].name
        THEN rejected[k]
        ELSE NilNAD]

\* sync(key): the worker takes a key and syncs it with the declaration the
\* lister holds for it (nil when the declaration is not found)
Resync(key, nad) ==
    \E r \in {syncNAD(ctrl, key, nad)} :
        /\ nads' = r.nads
        /\ primaryNADs' = r.primaryNADs
        /\ networks' = r.networks
        /\ delivered' = [delivered EXCEPT ![key] = DeclKind(nad)]
        /\ last' = [NoLast EXCEPT !.op = "syncNAD", !.key = key, !.nad = nad,
                                  !.was = nads[key], !.err = r.err, !.calls = r.calls,
                                  !.repeat = (last.op = "syncNAD" /\ last.key = key
                                              /\ last.nad = nad)]
        /\ rejected' = remember(key, nad, r.err)
        /\ retried' = rejected[key]
        /\ UNCHANGED outsideRetry

NextRetry == \E key \in Keys, nad \in NADInputs : Resync(key, nad)

-----------------------------------------------------------------------------
(* Specifications. *)

Init ==
    InitNAD /\ InitMap /\ InitLB /\ InitConcurrent /\ InitEqual /\ InitLock /\ InitPass /\ InitRetry /\ InitRace /\ InitBuild /\ InitBulk

\* the nadController that reads the network manager's registry
Next == NextNAD

Spec == Init /\ [][Next]_vars

\* the NADController that keeps its own networks map
NextNetworksMap == NextMap

SpecNetworksMap == Init /\ [][NextNetworksMap]_vars

\* the load-balancer reconciler under serialized callers
NextEnsureLBs == NextLB

SpecLB == Init /\ [][NextEnsureLBs]_vars

\* the load-balancer reconciler under two concurrent callers with disjoint tags
NextDisjointTags == NextConcurrent

SpecDisjointTags == Init /\ [][NextDisjointTags]_vars

\* the callers of the comparator
NextLoadBalancersEqual == NextEqual

InitLoadBalancersEqual ==
    InitNAD /\ InitMap /\ InitLB /\ InitConcurrent /\ InitCompared /\ InitLock /\ InitPass /\ InitRetry /\ InitRace /\ InitBuild /\ InitBulk

SpecEqual == InitLoadBalancersEqual /\ [][NextLoadBalancersEqual]_vars

\* the sync worker and the concurrent callers of GetActiveNetworkForNamespace
NextLocked == NextLock

SpecLocked == Init /\ [][NextLocked]_vars

\* the initial pass of the nadController
NextSyncAll == NextPass

SpecSyncAll == Init /\ [][NextSyncAll]_vars

\* the worker that syncs keys again after an error
NextResync == NextRetry

SpecResync == Init /\ [][NextResync]_vars

\* the load-balancer reconciler under two concurrent callers with the same tag
NextSameTag == NextRace

SpecSameTag == Init /\ [][NextSameTag]_vars

\* the callers of buildLB
NextBuildLB == NextBuild

InitBuildLB ==
    InitNAD /\ InitMap /\ InitLB /\ InitConcurrent /\ InitEqual /\ InitLock /\ InitPass /\ InitRetry /\ InitRace /\ InitBuilt /\ InitBulk

SpecBuildLB == InitBuildLB /\ [][NextBuildLB]_vars

\* the reconciler over rows that share a name
NextSharedNames == NextCollision

SpecCollision == Init /\ [][NextSharedNames]_vars

\* the bulk operations on the load balancers of one owner
NextBulkOperations == NextBulk

SpecBulk == Init /\ [][NextBulkOperations]_vars

-----------------------------------------------------------------------------
(* Vocabulary of the properties of the NAD controller. *)

\* the network manager has a network of this name
Registered(name) == name \in DOMAIN networks

\* the keys whose nads entry names the network
ReferencingKeys(name) == {k \in Keys : nads[k] = name}

\* the latest step was a syncNAD call
SyncStep == last'.op = "syncNAD"

\* the latest syncNAD call asked the manager to delete the network
DeleteCalled(calls, name) ==
    \E i \in 1..Len(calls) : calls[i] = <<"DeleteNetwork", name>>

-----------------------------------------------------------------------------
(* Properties of nadController (the controller that reads the network      *)
(* manager's registry).                                                    *)

\* C2. Ownership invariant: after every syncNAD call, for every key k present in
\* nads, the network named nads[k], if it is still registered, lists k in its
\* reference set (GetNADs).
OwnershipInvariant ==
    \A k \in Keys :
        (nads[k] /= "" /\ Registered(nads[k])) => k \in GetNADs(networks[nads[k]])

\* two keys are bound to one registered network and a third sync was rejected
\* and detached
OwnershipWitness ==
    /\ last.op = "syncNAD"
    /\ last.err = "mismatch"
    /\ \E k1, k2 \in Keys :
          /\ k1 /= k2
          /\ nads[k1] /= ""
          /\ nads[k1] = nads[k2]
          /\ Registered(nads[k1])

\* the network a key is bound to is registered, primary, and the key is of the
\* namespace
BoundToPrimary(ns, k) ==
    /\ SplitMetaNamespaceKey(k).namespace = ns
    /\ nads[k] /= ""
    /\ Registered(nads[k])
    /\ IsPrimaryNetwork(networks[nads[k]])

\* C3 as stated. Primary uniqueness: primaryNADs holds at most one key per
\* namespace, and holds key k only while k's latest delivered declaration
\* parses, is primary, and k is tracked in nads.
PrimaryOnlyWhileLatestDeclarationParses ==
    \A ns \in Namespaces :
        primaryNADs[ns] /= NoKey =>
            /\ primaryNADs[ns] \in Keys
            /\ delivered[primaryNADs[ns]] = "primary"
            /\ nads[primaryNADs[ns]] /= ""

\* C3 as amended. primaryNADs holds at most one key per namespace; it holds key
\* k only while k is tracked in nads and bound to a registered primary network,
\* and k's latest delivered declaration either parses as a primary network or
\* is malformed (a malformed delivery changes nothing); no other tracked key of
\* the namespace is bound to a primary network while k is recorded.
PrimaryUniqueness ==
    \A ns \in Namespaces :
        /\ primaryNADs[ns] /= NoKey =>
              /\ primaryNADs[ns] \in Keys
              /\ BoundToPrimary(ns, primaryNADs[ns])
              /\ delivered[primaryNADs[ns]] \in {"primary", "bad"}
        /\ \A k \in Keys : BoundToPrimary(ns, k) => primaryNADs[ns] = k

\* a primary NAD is recorded whose latest delivery was malformed, while
\* another NAD of the namespace was rejected by the primary guard
PrimaryUniquenessWitness ==
    /\ last.op = "syncNAD"
    /\ last.err = "primary"
    /\ \E ns \in Namespaces :
          /\ primaryNADs[ns] /= NoKey
          /\ primaryNADs[ns] /= last.key
          /\ SplitMetaNamespaceKey(last.key).namespace = ns
          /\ delivered[primaryNADs[ns]] = "bad"

\* C4. Primary-entry consistency: whenever primaryNADs[ns] = k then nads[k] is a
\* non-empty network name, that network is registered and primary; so
\* GetActiveNetworkForNamespace never reaches its consistency panic (nor a nil
\* network).
PrimaryEntryConsistency ==
    /\ \A ns \in Namespaces :
          primaryNADs[ns] /= NoKey =>
              /\ nads[primaryNADs[ns]] /= ""
              /\ Registered(nads[primaryNADs[ns]])
              /\ IsPrimaryNetwork(networks[nads[primaryNADs[ns]]])
    /\ \A ns \in Namespaces, udns \in UDNListings :
          GetActiveNetworkForNamespace(ctrl, ns, TRUE, udns).kind
              \notin {"panic", "nilderef"}
    /\ last.op = "getActive" => last.ret.kind \notin {"panic", "nilderef"}

\* GetActiveNetworkForNamespace returned the primary network of a namespace
\* in which another NAD had been deleted
PrimaryEntryWitness ==
    /\ last.op = "getActive"
    /\ last.ret.kind = "network"
    /\ primaryNADs[last.namespace] /= NoKey
    /\ \E k \in Keys :
          /\ k /= primaryNADs[last.namespace]
          /\ SplitMetaNamespaceKey(k).namespace = last.namespace
          /\ delivered[k] = "nil"

\* a valid declaration of key names a registered network with another
\* configuration that some other key still references
ConfigConflict(key, nad) ==
    /\ ~nad.nil
    /\ nad.valid
    /\ Registered(nad.name)
    /\ networks[nad.name].conf /= nad.conf
    /\ GetNADs(networks[nad.name]) \ {key} /= {}

\* C5 as stated. Conflict rejection: the sync of a declaration that conflicts
\* with a network another declaration still references returns a conflict
\* error and leaves the nads mapping of both declarations as it was.
ConflictLeavesMappings ==
    [][(SyncStep /\ ConfigConflict(last'.key, last'.nad))
          => (last'.err /= "" /\ nads' = nads)]_vars

\* C5 as amended. The sync of the conflicting declaration returns a conflict
\* error and leaves the nads mapping of every other key, and the configuration
\* and the other references of the network, as they were; the syncing key's own
\* mapping is left as it was only if it was untracked or the primary guard
\* rejected the sync: a key that was bound (to that network or to another one)
\* is removed from nads and from the reference set of that network.
ConflictRejection ==
    [][(SyncStep /\ ConfigConflict(last'.key, last'.nad))
          => LET key == last'.key
                 name == last'.nad.name
             IN  /\ last'.err \in {"mismatch", "primary"}
                 /\ \A k \in Keys \ {key} : nads'[k] = nads[k]
                 /\ nads'[key] = IF last'.err = "primary" THEN nads[key] ELSE ""
                 /\ name \in DOMAIN networks'
                 /\ networks'[name].conf = networks[name].conf
                 /\ GetNADs(networks'[name]) \ {key} = GetNADs(networks[name]) \ {key}
                 /\ key \in GetNADs(networks'[name]) <=> last'.err = "primary"
                         /\ key \in GetNADs(networks[name])]_vars

\* a key bound to a network was synced again with another configuration while
\* another key still references the network
ConflictRejectionWitness ==
    /\ last.op = "syncNAD"
    /\ last.err = "mismatch"
    /\ last.was = last.nad.name
    /\ nads[last.key] = ""
    /\ ReferencingKeys(last.nad.name) /= {}

\* C6. Idempotence of syncNAD: a second call with the same key and the same
\* declaration, right after the first, leaves nads, primaryNADs and the
\* registered networks as the first call left them, returns what the first
\* call returned and makes no DeleteNetwork call.
Idempotence ==
    [][(SyncStep /\ last'.repeat)
          => /\ nads' = nads
             /\ primaryNADs' = primaryNADs
             /\ networks' = networks
             /\ last'.err = last.err
             /\ \A name \in NetNames : ~DeleteCalled(last'.calls, name)]_vars

\* a rejected conflicting declaration was synced a second time
IdempotenceWitness ==
    /\ last.op = "syncNAD"
    /\ last.repeat
    /\ last.err = "mismatch"
    /\ Len(last.calls) > 0

\* the declaration of key parses to a primary network and another key is the
\* recorded primary NAD of its namespace
SecondPrimary(key, nad) ==
    /\ ~nad.nil
    /\ nad.valid
    /\ RoleOf(nad.conf) = "primary"
    /\ primaryNADs[SplitMetaNamespaceKey(key).namespace] \notin {NoKey, key}

\* C7. Primary-conflict guard: such a sync returns the primary conflict error
\* and changes nothing: nads, primaryNADs and every network with its reference
\* set stay as they were, and no network manager call is made.
PrimaryConflictGuard ==
    [][(SyncStep /\ SecondPrimary(last'.key, last'.nad))
          => /\ last'.err = "primary"
             /\ nads' = nads
             /\ primaryNADs' = primaryNADs
             /\ networks' = networks
             /\ last'.calls = <<>>]_vars

\* a key bound to a network was rejected by the guard and is still bound
PrimaryConflictGuardWitness ==
    /\ last.op = "syncNAD"
    /\ last.err = "primary"
    /\ last.was /= ""
    /\ nads[last.key] = last.was
    /\ last.nad.name /= last.was

\* the latest step was a GetActiveNetworkForNamespace call with network
\* segmentation enabled
GetActiveStep == last'.op = "getActive" /\ last'.segmentation

\* the call returned a copy of the network of the namespace's primary NAD with
\* exactly that NAD as its reference set
ReturnsPrimaryCopy(ns) ==
    /\ last'.ret.kind = "network"
    /\ nads[primaryNADs[ns]] /= ""
    /\ Registered(nads[primaryNADs[ns]])
    /\ last'.ret.net = [networks[nads[primaryNADs[ns]]] EXCEPT !.nads = {primaryNADs[ns]}]

\* the call changed nothing
ReadOnly == nads' = nads /\ primaryNADs' = primaryNADs /\ networks' = networks

\* C8 as stated. GetActiveNetworkForNamespace returns the copy of the primary
\* network if one is recorded, otherwise fails with the unprocessed active
\* network error if a primary UDN exists in the namespace, otherwise returns the
\* default network; it is read-only.
GetActiveThreeCases ==
    [][GetActiveStep
          => /\ IF primaryNADs[last'.namespace] /= NoKey
                THEN ReturnsPrimaryCopy(last'.namespace)
                ELSE IF last'.udns.primary
                THEN last'.ret.kind = "unprocessed"
                ELSE last'.ret.kind = "default" /\ last'.ret.net = DefaultNetInfo
             /\ ReadOnly]_vars

\* C8 as amended. As stated, provided the listing of the namespace's
\* user-defined networks succeeds; when no primary NAD is recorded and that
\* listing fails, the call returns the listing error instead.
GetActiveNetwork ==
    [][GetActiveStep
          => /\ IF primaryNADs[last'.namespace] /= NoKey
                THEN ReturnsPrimaryCopy(last'.namespace)
                ELSE IF last'.udns.fail
                THEN last'.ret.kind = "listerror"
                ELSE IF last'.udns.primary
                THEN last'.ret.kind = "unprocessed"
                ELSE last'.ret.kind = "default" /\ last'.ret.net = DefaultNetInfo
             /\ ReadOnly]_vars

\* the primary network was returned with one NAD while the registered
\* network is referenced by two
GetActiveNetworkWitness ==
    /\ last.op = "getActive"
    /\ last.segmentation
    /\ last.ret.kind = "network"
    /\ Cardinality(GetNADs(last.ret.net)) = 1
    /\ Cardinality(GetNADs(networks[last.ret.net.name])) = 2

-----------------------------------------------------------------------------
(* Properties of NADController (the controller with its own networks map). *)

\* the keys whose nads entry names the network, in the NADController
MapReferencingKeys(name) == {k \in Keys : mapNads[k] = name}

\* C1. Reference counting: after any sequence of syncNAD calls a network is
\* registered (present in the networks map) if and only if its set of
\* referencing NAD keys is non-empty, and a network whose last referencing key
\* was removed has been deleted via DeleteNetwork in that same sync.
ReferenceCountingInNetworksMap ==
    /\ \A name \in NetNames :
          name \in DOMAIN mapNetworks <=> MapReferencingKeys(name) /= {}
    /\ \A name \in NetNames \cap DOMAIN mapNetworks :
          ~mapNetworks[name].nil /\ GetNADs(mapNetworks[name]) /= {}
    /\ (mapLast.was /= "" /\ MapReferencingKeys(mapLast.was) = {})
          => DeleteCalled(mapLast.calls, mapLast.was)

-----------------------------------------------------------------------------
(* Vocabulary of the properties of the load-balancer reconciler. *)

\* a step of an EnsureLBs call
EnsureLBsStep == lbVars' # lbVars

\* the switches, routers or groups of a table that reference a load balancer
AttachedTo(table, uuid) == {n \in DOMAIN table : uuid \in table[n]}

\* a row has the content and exactly the attachments of a desired load balancer
CarriesDesired(db, row, lb) ==
    /\ [row EXCEPT !.UUID = NoUUID] = buildLB(lb)
    /\ AttachedTo(db.LogicalSwitch, row.UUID) = Range(lb.Switches)
    /\ AttachedTo(db.LogicalRouter, row.UUID) = Range(lb.Routers)
    /\ AttachedTo(db.LoadBalancerGroup, row.UUID) = Range(lb.Groups)

\* the desired names of a call are non-empty and pairwise distinct and every
\* desired load balancer carries the call's tag
WellFormedCall(call) ==
    /\ \A i \in DOMAIN call.LBs :
          /\ call.LBs[i].Name # ""
          /\ MatchesExternalIDs(call.LBs[i], call.externalIDs)
    /\ \A i, j \in DOMAIN call.LBs : i # j => call.LBs[i].Name # call.LBs[j].Name

\* the rows of a set that carry a name
Named(rows, name) == {row \in rows : row.Name = name}

-----------------------------------------------------------------------------
(* C9: EnsureLBs set reconciliation.  After a serialized call of EnsureLBs     *)
(* that returns nil, with desired names non-empty and pairwise distinct and    *)
(* every desired load balancer carrying the tag, the rows matching the tag are *)
(* one row per desired name and no others, each with the desired content and   *)
(* attached to exactly the desired switches, routers and groups; a desired     *)
(* name that one row carried before keeps that row's UUID, a desired name that *)
(* no row carried gets a row that did not exist, and every row whose name is   *)
(* not desired is gone.                                                        *)
SetReconciliation ==
    [][(EnsureLBsStep /\ lastLB'.err = "" /\ WellFormedCall(lastLB')) =>
          LET LBs == lastLB'.LBs
              before == FindLoadBalancersByExternalIDs(nb, lastLB'.externalIDs)
              after == FindLoadBalancersByExternalIDs(nb', lastLB'.externalIDs)
          IN  /\ \A i \in DOMAIN LBs :
                    /\ Cardinality(Named(after, LBs[i].Name)) = 1
                    /\ \A row \in Named(after, LBs[i].Name) :
                          /\ CarriesDesired(nb', row, LBs[i])
                          /\ Cardinality(Named(before, LBs[i].Name)) = 1 =>
                                 row.UUID \in {old.UUID : old \in Named(before, LBs[i].Name)}
                          /\ Named(before, LBs[i].Name) = {} =>
                                 row.UUID \notin DOMAIN nb.LoadBalancer
              /\ \A row \in after : \E i \in DOMAIN LBs : LBs[i].Name = row.Name
              /\ \A old \in before :
                    (\A i \in DOMAIN LBs : LBs[i].Name # old.Name) =>
                        old.UUID \notin DOMAIN nb'.LoadBalancer]_vars

\* the first owner's call for two load balancers returned nil, its two rows
\* are there, one of them on switch "s2", next to a row of the second owner
SetReconciliationWitness ==
    /\ lastLB.called /\ lastLB.err = "" /\ lastLB.externalIDs = FirstOwner
    /\ WellFormedCall(lastLB) /\ Len(lastLB.LBs) = 2
    /\ Cardinality(FindLoadBalancersByExternalIDs(nb, FirstOwner)) = 2
    /\ FindLoadBalancersByExternalIDs(nb, SecondOwner) # {}
    /\ nb.LogicalSwitch["s2"] # {}

-----------------------------------------------------------------------------
(* C10: EnsureLBs atomicity.  A call commits at most one transaction; a call   *)
(* that returns nil has committed exactly one, which carries every update,     *)
(* creation, attachment, detachment and deletion of the call; a call in which  *)
(* a listing step, an operation-building step or the commit fails returns an   *)
(* error, attempts no second transaction and leaves the database exactly as it *)
(* was.                                                                        *)
Atomicity ==
    [][EnsureLBsStep =>
          /\ lastLB'.transactions <= 1
          /\ lastLB'.fail # "" => lastLB'.err = lastLB'.fail
          /\ lastLB'.err # "" => nb' = nb
          /\ lastLB'.err \notin {"", "transact"} => lastLB'.transactions = 0
          /\ lastLB'.err = "" =>
                /\ lastLB'.transactions = 1
                /\ \E existing \in
                       Orderings(FindLoadBalancersByExternalIDs(nb, lastLB'.externalIDs)) :
                      nb' = transact(nb, plan(nb, existing, lastLB'.LBs))]_vars

\* the commit of a call that had a row to create failed: the call returned the
\* error and the tag has no row
AtomicityWitness ==
    /\ lastLB.called /\ lastLB.err = "transact" /\ lastLB.transactions = 1
    /\ lastLB.LBs # <<>>
    /\ FindLoadBalancersByExternalIDs(nb, lastLB.externalIDs) = {}

-----------------------------------------------------------------------------
(* Vocabulary of the operations that a call of EnsureLBs builds. *)

\* the call got as far as the loop over the desired load balancers
ReachedPlan(call) == call.fail \notin {"listSwitches", "listRouters", "listGroups"}

\* the desired load balancers of a list that carry a name
Wanting(LBs, name) == {i \in DOMAIN LBs : LBs[i].Name = name}

\* how often the operations of a map name a load balancer for a target
Occurrences(m, n, ptr) ==
    Cardinality({j \in DOMAIN Lookup(m, n, <<>>) : Lookup(m, n, <<>>)[j] = ptr})

\* the named targets of a table that reference a load balancer
NamedTargets(table, uuid) == AttachedTo(table, uuid) \ {""}

\* for one kind of target, the attach map names the row once per desired load
\* balancer of the name and target that wants the target and does not have
\* it, the detach map once per desired load balancer that has the target and
\* does not want it, and neither names it anywhere else
ExactDifferences(add, remove, table, uuid, wants) ==
    \A n \in DOMAIN add \cup DOMAIN remove \cup DOMAIN table :
        /\ Occurrences(add, n, [new |-> FALSE, id |-> uuid])
               = Cardinality({i \in DOMAIN wants :
                                 n \in wants[i] \ NamedTargets(table, uuid)})
        /\ Occurrences(remove, n, [new |-> FALSE, id |-> uuid])
               = Cardinality({i \in DOMAIN wants :
                                 n \in NamedTargets(table, uuid) \ wants[i]})

\* the operations of a call take a desired name that one existing row carries
\* down the update path
OnUpdatePath(db, ops, LBs, old) ==
    LET mine == Wanting(LBs, old.Name)
    IN  /\ {j \in DOMAIN ops.existinglbs : ops.existinglbs[j].UUID = old.UUID}
               = {j \in DOMAIN ops.existinglbs : ops.existinglbs[j].Name = old.Name}
        /\ Cardinality({j \in DOMAIN ops.existinglbs :
                            ops.existinglbs[j].UUID = old.UUID}) = Cardinality(mine)
        /\ \A i \in mine :
               \E j \in DOMAIN ops.existinglbs :
                   ops.existinglbs[j] = [buildLB(LBs[i]) EXCEPT !.UUID = old.UUID]
        /\ \A j \in DOMAIN ops.newlbs : ops.newlbs[j].Name # old.Name
        /\ old.UUID \notin ops.toDelete
        /\ ExactDifferences(ops.addLBsToSwitch, ops.removeLBsFromSwitch, db.LogicalSwitch,
                            old.UUID, [i \in mine |-> Range(LBs[i].Switches)])
        /\ ExactDifferences(ops.addLBsToRouter, ops.removesLBsFromRouter, db.LogicalRouter,
                            old.UUID, [i \in mine |-> Range(LBs[i].Routers)])
        /\ ExactDifferences(ops.addLBsToGroups, ops.removeLBsFromGroups,
                            db.LoadBalancerGroup, old.UUID,
                            [i \in mine |-> Range(LBs[i].Groups)])

-----------------------------------------------------------------------------
(* C11: LB convergence, update path.  For every desired load balancer whose    *)
(* name exactly one existing row under the tag carries, EnsureLBs reuses the   *)
(* UUID of that row (one update per such desired load balancer, no creation),  *)
(* does not delete the row, and builds, separately for switches, routers and   *)
(* groups, an attach operation for exactly the targets that are desired and    *)
(* not attached and a detach operation for exactly the targets that are        *)
(* attached and not desired; a call that returns nil leaves the row in the     *)
(* database under its UUID.                                                    *)
UpdatePath ==
    [][(EnsureLBsStep /\ ReachedPlan(lastLB')) =>
          LET before == FindLoadBalancersByExternalIDs(nb, lastLB'.externalIDs)
          IN  \A existing \in Orderings(before) :
                  \E ops \in {plan(nb, existing, lastLB'.LBs)} :
                      \A old \in before :
                          (/\ Cardinality(Named(before, old.Name)) = 1
                           /\ Wanting(lastLB'.LBs, old.Name) # {}) =>
                              /\ OnUpdatePath(nb, ops, lastLB'.LBs, old)
                              /\ old.UUID \in lastLB'.updated
                              /\ old \notin lastLB'.deleted
                              /\ lastLB'.err = "" =>
                                     /\ old.UUID \in DOMAIN nb'.LoadBalancer
                                     /\ nb'.LoadBalancer[old.UUID].Name = old.Name]_vars

\* the first owner's call for "A" on the switches "s1" and "s2" returned nil:
\* it updated the one row of the tag, created and deleted none, attached the
\* row to "s2" and the group and took it off the router
UpdatePathWitness ==
    /\ lastLB.called /\ lastLB.err = "" /\ lastLB.externalIDs = FirstOwner
    /\ lastLB.LBs = <<LB("A", FirstOwner, Moved)>>
    /\ Cardinality(lastLB.updated) = 1 /\ lastLB.created = 0 /\ lastLB.deleted = {}
    /\ lastLB.attaches = 2 /\ lastLB.detaches = 1
    /\ \A u \in lastLB.updated : AttachedTo(nb.LogicalSwitch, u) = {"s1", "s2"}

-----------------------------------------------------------------------------
(* Vocabulary of the deletions. *)

\* no two rows share a name
NoCollision(rows) == \A r1, r2 \in rows : r1.Name = r2.Name => r1 = r2

\* no attachment map of the operations names the row
NoAttachmentOp(ops, uuid) ==
    \A m \in {ops.addLBsToSwitch, ops.removeLBsFromSwitch, ops.addLBsToRouter,
               ops.removesLBsFromRouter, ops.addLBsToGroups, ops.removeLBsFromGroups} :
        \A n \in DOMAIN m : Occurrences(m, n, [new |-> FALSE, id |-> uuid]) = 0

\* every desired load balancer of the row's name wants the row's attachments
AttachmentsAsDesired(db, LBs, old) ==
    \A i \in Wanting(LBs, old.Name) :
        /\ Range(LBs[i].Switches) = NamedTargets(db.LogicalSwitch, old.UUID)
        /\ Range(LBs[i].Routers) = NamedTargets(db.LogicalRouter, old.UUID)
        /\ Range(LBs[i].Groups) = NamedTargets(db.LoadBalancerGroup, old.UUID)

\* no switch, router or group references the row
Detached(db, uuid) ==
    /\ AttachedTo(db.LogicalSwitch, uuid) = {}
    /\ AttachedTo(db.LogicalRouter, uuid) = {}
    /\ AttachedTo(db.LoadBalancerGroup, uuid) = {}

-----------------------------------------------------------------------------
(* C12: LB deletion.  When no two existing rows under the tag share a name,    *)
(* EnsureLBs deletes exactly the existing rows under the tag whose name no     *)
(* desired load balancer carries and deletes no row whose name is desired; a   *)
(* retained row whose attachments equal the desired attachments gets no attach *)
(* and no detach operation.  After a call that returns nil the deleted rows    *)
(* are gone from the table and from every switch, router and group, and the    *)
(* retained rows are still there.                                              *)
Deletion ==
    [][(EnsureLBsStep /\ ReachedPlan(lastLB')) =>
          LET before == FindLoadBalancersByExternalIDs(nb, lastLB'.externalIDs)
              unwanted == {old \in before : Wanting(lastLB'.LBs, old.Name) = {}}
          IN  NoCollision(before) =>
                  /\ \A existing \in Orderings(before) :
                         \E ops \in {plan(nb, existing, lastLB'.LBs)} :
                             /\ ops.toDelete = {old.UUID : old \in unwanted}
                             /\ \A old \in before \ unwanted :
                                    AttachmentsAsDesired(nb, lastLB'.LBs, old) =>
                                        NoAttachmentOp(ops, old.UUID)
                  /\ lastLB'.deleted = unwanted
                  /\ lastLB'.err = "" =>
                         /\ \A old \in unwanted :
                                /\ old.UUID \notin DOMAIN nb'.LoadBalancer
                                /\ Detached(nb', old.UUID)
                         /\ \A old \in before \ unwanted :
                                old.UUID \in DOMAIN nb'.LoadBalancer]_vars

\* the first owner, with rows "A" and "B", asked for "A" alone as it was: the
\* call returned nil, deleted the row "B", updated the row "A" and built no
\* attach and no detach operation
DeletionWitness ==
    /\ lastLB.called /\ lastLB.err = "" /\ lastLB.externalIDs = FirstOwner
    /\ lastLB.LBs = <<LB("A", FirstOwner, Attached)>>
    /\ Cardinality(lastLB.updated) = 1 /\ lastLB.created = 0
    /\ Cardinality(lastLB.deleted) = 1 /\ \A row \in lastLB.deleted : row.Name = "B"
    /\ lastLB.attaches = 0 /\ lastLB.detaches = 0
    /\ {row.Name : row \in FindLoadBalancersByExternalIDs(nb, FirstOwner)} = {"A"}

-----------------------------------------------------------------------------
(* Vocabulary of the collisions. *)

\* the names that exactly two rows of a set carry
CollidingNames(rows) == {row.Name : row \in {r \in rows : Cardinality(Named(rows, r.Name)) = 2}}

\* the targets under which a map names a load balancer
TargetsOf(m, ptr) == {n \in DOMAIN m : Occurrences(m, n, ptr) > 0}

\* the j-th created row is built from the desired load balancer and is attached
\* to all of its targets, each once, and detached from none
CreatedFor(ops, j, lb) ==
    LET ptr == [new |-> TRUE, id |-> j]
    IN  /\ ops.newlbs[j] = buildLB(lb)
        /\ TargetsOf(ops.addLBsToSwitch, ptr) = Range(lb.Switches)
        /\ TargetsOf(ops.addLBsToRouter, ptr) = Range(lb.Routers)
        /\ TargetsOf(ops.addLBsToGroups, ptr) = Range(lb.Groups)
        /\ TargetsOf(ops.removeLBsFromSwitch, ptr) = {}
        /\ TargetsOf(ops.removesLBsFromRouter, ptr) = {}
        /\ TargetsOf(ops.removeLBsFromGroups, ptr) = {}

\* the operations delete both rows of a colliding name, update neither, and
\* create one row per desired load balancer of the name
RepairsCollision(ops, LBs, colliding, name) ==
    /\ {old.UUID : old \in colliding} \subseteq ops.toDelete
    /\ \A j \in DOMAIN ops.existinglbs :
           /\ ops.existinglbs[j].Name # name
           /\ ops.existinglbs[j].UUID \notin {old.UUID : old \in colliding}
    /\ Cardinality({j \in DOMAIN ops.newlbs : ops.newlbs[j].Name = name})
           = Cardinality(Wanting(LBs, name))
    /\ \A i \in Wanting(LBs, name) :
           \E j \in DOMAIN ops.newlbs : CreatedFor(ops, j, LBs[i])

-----------------------------------------------------------------------------
(* C13: collision self-repair.  If two existing rows under the tag share a     *)
(* name, the next call of EnsureLBs deletes both of them, whether and however  *)
(* the name appears in the desired list; if the name is desired, its row is    *)
(* created afresh, with a new UUID and attached to all desired targets, and    *)
(* neither colliding row is reused.                                            *)
CollisionSelfRepair ==
    [][(EnsureLBsStep /\ ReachedPlan(lastLB')) =>
          LET before == FindLoadBalancersByExternalIDs(nb, lastLB'.externalIDs)
              after == FindLoadBalancersByExternalIDs(nb', lastLB'.externalIDs)
          IN  \A name \in CollidingNames(before) :
                  /\ \A existing \in Orderings(before) :
                         \E ops \in {plan(nb, existing, lastLB'.LBs)} :
                             RepairsCollision(ops, lastLB'.LBs, Named(before, name), name)
                  /\ Named(before, name) \subseteq lastLB'.deleted
                  /\ lastLB'.err = "" =>
                         /\ \A old \in Named(before, name) :
                                /\ old.UUID \notin DOMAIN nb'.LoadBalancer
                                /\ Detached(nb', old.UUID)
                         /\ Cardinality(Named(after, name))
                                = Cardinality(Wanting(lastLB'.LBs, name))
                         /\ \A row \in Named(after, name) :
                                /\ row.UUID \notin DOMAIN nb.LoadBalancer
                                /\ \E i \in Wanting(lastLB'.LBs, name) :
                                       CarriesDesired(nb', row, lastLB'.LBs[i])]_vars

\* the first owner had two rows named "A" and asked for "A" once: the call
\* returned nil, deleted both rows, updated none and created one row, which
\* is on both desired switches
CollisionSelfRepairWitness ==
    /\ lastLB.called /\ lastLB.err = "" /\ lastLB.externalIDs = FirstOwner
    /\ lastLB.LBs = <<LB("A", FirstOwner, Moved)>>
    /\ Cardinality(lastLB.deleted) = 2 /\ \A row \in lastLB.deleted : row.Name = "A"
    /\ lastLB.updated = {} /\ lastLB.created = 1
    /\ \E row \in FindLoadBalancersByExternalIDs(nb, FirstOwner) :
           /\ FindLoadBalancersByExternalIDs(nb, FirstOwner) = {row}
           /\ row \notin lastLB.deleted
           /\ CarriesDesired(nb, row, lastLB.LBs[1])

-----------------------------------------------------------------------------
(* Vocabulary of the concurrent callers. *)

\* the content and the attachments of a row, whatever its UUID
ContentOf(db, uuid) ==
    <<[db.LoadBalancer[uuid] EXCEPT !.UUID = NoUUID], AttachedTo(db.LogicalSwitch, uuid),
      AttachedTo(db.LogicalRouter, uuid), AttachedTo(db.LoadBalancerGroup, uuid)>>

\* the database up to the UUIDs of its rows: how many rows have which content
\* and attachments
Content(db) ==
    [c \in {ContentOf(db, u) : u \in DOMAIN db.LoadBalancer} |->
        Cardinality({u \in DOMAIN db.LoadBalancer : ContentOf(db, u) = c})]

\* the outcomes of the call of one owner followed by the call of the other:
\* the two return values and the database they leave
Sequential(db, o1, LBs1, o2, LBs2) ==
    UNION {{<<r1.err, r2.err, Content(r2.db)>> :
               r2 \in {EnsureLBs(r1.db, e2, LBs2, "") :
                           e2 \in Orderings(FindLoadBalancersByExternalIDs(r1.db, o2))}} :
           r1 \in {EnsureLBs(db, e1, LBs1, "") :
                       e1 \in Orderings(FindLoadBalancersByExternalIDs(db, o1))}}

\* both owners have returned
BothReturned == \A o \in Tags : callers[o].pc = "done"

\* the rows that do not match the tag are in the second database as they are
\* in the first, attached to the same switches, routers and groups
OthersUntouched(db1, db2, o) ==
    \A u \in DOMAIN db1.LoadBalancer :
        ~MatchesExternalIDs(db1.LoadBalancer[u], o) =>
            /\ u \in DOMAIN db2.LoadBalancer
            /\ db2.LoadBalancer[u] = db1.LoadBalancer[u]
            /\ AttachedTo(db2.LogicalSwitch, u) = AttachedTo(db1.LogicalSwitch, u)
            /\ AttachedTo(db2.LogicalRouter, u) = AttachedTo(db1.LogicalRouter, u)
            /\ AttachedTo(db2.LoadBalancerGroup, u) = AttachedTo(db1.LoadBalancerGroup, u)

\* the outcome of the two concurrent calls is an outcome of the call of the
\* first owner followed by the call of the second, and an outcome of the call
\* of the second followed by the call of the first
AsOneAfterTheOther ==
    /\ <<callers[FirstOwner].err, callers[SecondOwner].err, Content(nb)>>
           \in Sequential(start, FirstOwner, callers[FirstOwner].LBs,
                          SecondOwner, callers[SecondOwner].LBs)
    /\ <<callers[SecondOwner].err, callers[FirstOwner].err, Content(nb)>>
           \in Sequential(start, SecondOwner, callers[SecondOwner].LBs,
                          FirstOwner, callers[FirstOwner].LBs)

-----------------------------------------------------------------------------
(* C14: independence of disjoint tags.  The commit of a call of EnsureLBs      *)
(* changes, deletes, attaches and detaches only rows that match the tag of     *)
(* the call or that the call creates; so two calls with disjoint tags, with    *)
(* the reads and the commit of one interleaved in any way with the reads and   *)
(* the commit of the other, return what they return, and leave the database    *)
(* (up to the UUIDs of created rows) as they leave it, when one call runs      *)
(* after the other, in either order.                                           *)
DisjointTagsIndependent ==
    [][/\ \A o \in Tags :
              (callers[o].pc = "commit" /\ callers'[o].pc = "done") =>
                  OthersUntouched(nb, nb', o)
       /\ BothReturned' => AsOneAfterTheOther']_vars

\* in the second round both owners read the database before either commit:
\* the first owner, who had a row, asked for "A" on the switches "s1" and "s2"
\* and the second owner asked for nothing and lost its row
DisjointTagsIndependentWitness ==
    /\ BothReturned /\ rounds = 2
    /\ \A o \in Tags :
           /\ callers[o].err = ""
           /\ FindLoadBalancersByExternalIDs(start, o) # {}
           /\ callers[o].found \in Orderings(FindLoadBalancersByExternalIDs(start, o))
           /\ callers[o].lbToSwitchNames = listSwitches(start)
           /\ callers[o].lbToRouterNames = listRouters(start)
           /\ callers[o].lbToGroupNames = listGroups(start)
    /\ callers[FirstOwner].LBs = <<LB("A", FirstOwner, Moved)>>
    /\ callers[SecondOwner].LBs = <<>>
    /\ start.LogicalSwitch["s2"] = {}
    /\ Cardinality(nb.LogicalSwitch["s2"]) = 1
    /\ FindLoadBalancersByExternalIDs(nb, SecondOwner) = {}

-----------------------------------------------------------------------------
(* Vocabulary of the comparator. *)

\* two load balancers are equal in every field other than the UUID
EqualButUUID(lb1, lb2) ==
    /\ lb1.Name = lb2.Name
    /\ lb1.ExternalIDs = lb2.ExternalIDs
    /\ lb1.Opts = lb2.Opts
    /\ lb1.Protocol = lb2.Protocol
    /\ lb1.Rules = lb2.Rules
    /\ lb1.Switches = lb2.Switches
    /\ lb1.Routers = lb2.Routers
    /\ lb1.Groups = lb2.Groups

\* the second list holds the load balancers of the first in another order
Reordered(lbs1, lbs2) ==
    /\ Len(lbs1) = Len(lbs2)
    /\ \E i \in DOMAIN lbs1 : ~EqualButUUID(lbs1[i], lbs2[i])
    /\ \E f \in [DOMAIN lbs1 -> DOMAIN lbs1] :
           /\ \A i, j \in DOMAIN lbs1 : i # j => f[i] # f[j]
           /\ \A i \in DOMAIN lbs1 : lbs2[i] = lbs1[f[i]]

-----------------------------------------------------------------------------
(* C15: LoadBalancersEqualNoUUID returns true if and only if the two lists     *)
(* have the same length and, at every index, load balancers that are equal in  *)
(* every field other than the UUID; lists that differ only in UUIDs compare    *)
(* equal, the same load balancers in another order compare unequal, and the    *)
(* call leaves both lists as they were handed in.                              *)
ComparesAllButUUID ==
    comparison.called =>
        /\ comparison.ret <=>
               /\ Len(comparison.in1) = Len(comparison.in2)
               /\ \A i \in DOMAIN comparison.in1 :
                      EqualButUUID(comparison.in1[i], comparison.in2[i])
        /\ Reordered(comparison.in1, comparison.in2) => ~comparison.ret
        /\ comparison.lbs1 = comparison.in1
        /\ comparison.lbs2 = comparison.in2

\* two lists of two load balancers that differ in both UUIDs and in nothing
\* else compared equal
ComparesAllButUUIDWitness ==
    /\ comparison.called /\ comparison.ret
    /\ Len(comparison.in1) = 2
    /\ \A i \in DOMAIN comparison.in1 : comparison.in1[i].UUID # comparison.in2[i].UUID
    /\ comparison.in1[1].Name # comparison.in1[2].Name

-----------------------------------------------------------------------------
(* Vocabulary of the locking. *)

\* where the worker is between c.Lock() and its return
LockedPCs ==
    {"resolve", "remove", "deleteNAD", "clearPrimary", "setNAD", "trackPrimary", "ensure"}

\* where a caller is between c.RLock() and its return
ReadingPCs == {"readPrimary", "readNAD", "getNetwork"}

\* the worker has begun and not finished the writes of a sync
MidSync == registry # stable

\* the caller returns in this step
Returns(r) == readers[r].pc \in ReadingPCs /\ readers'[r].pc = "idle"

\* what GetActiveNetworkForNamespace returns when it runs, in one piece, on
\* the registry as the latest finished sync left it
FromStable(namespace) ==
    GetActiveNetworkForNamespace(stable, namespace, TRUE, [primary |-> FALSE, fail |-> FALSE])

-----------------------------------------------------------------------------
(* C16: registry locking.  syncNAD holds the exclusive lock from before its    *)
(* first read of nads and primaryNADs until it returns, and                    *)
(* GetActiveNetworkForNamespace holds the shared lock while it reads; under    *)
(* every interleaving of concurrent callers with the sync worker a caller      *)
(* reads the registry only as a finished sync left it, never a state in the    *)
(* middle of a sync: not a primary NAD whose nads entry is missing, not a      *)
(* network that is deleted and not yet ensured again.                          *)
RegistryLocking ==
    [][/\ (worker'.pc \in LockedPCs) <=> mutex'.writer
       /\ \A r \in Callers : (readers'[r].pc \in ReadingPCs) <=> (r \in mutex'.readers)
       /\ ~(mutex'.writer /\ mutex'.readers # {})
       /\ registry' # registry => (mutex.writer /\ worker.pc \in LockedPCs)
       /\ \A r \in Callers :
              /\ r \in mutex'.readers => (registry' = stable' /\ worker'.pc \notin LockedPCs)
              /\ (r \in mutex.readers /\ r \in mutex'.readers) => stable' = stable
              /\ Returns(r) =>
                     /\ registry = stable
                     /\ readers'[r].kind \notin {"panic", "nilderef"}
                     /\ readers'[r].kind = "noPrimary" <=>
                            FromStable(readers[r].namespace).kind = "default"
                     /\ readers'[r].kind = "network" =>
                            /\ FromStable(readers[r].namespace).kind = "network"
                            /\ readers'[r].net = FromStable(readers[r].namespace).net]_vars

\* the worker is in the middle of a sync: a namespace has a primary NAD whose
\* nads entry is gone, or a NAD names a network that is not registered; one
\* caller waits for the lock and the other has returned a network before
RegistryLockingWitness ==
    /\ mutex.writer /\ MidSync
    /\ \/ \E ns \in Namespaces :
              /\ registry.primaryNADs[ns] # NoKey
              /\ registry.nads[registry.primaryNADs[ns]] = ""
       \/ \E k \in Keys :
              registry.nads[k] # "" /\ registry.nads[k] \notin DOMAIN registry.networks
    /\ readers["c1"].pc = "waiting"
    /\ readers["c2"].kind = "network"

-----------------------------------------------------------------------------
(* Vocabulary of the initial pass. *)

\* a key could be derived from the listed declaration
HasKey(item) == ~item.keyErr

\* the controller after syncNAD has been called for the first n items, one
\* after the other, and the return value of the n-th call
RECURSIVE AfterSyncs(_, _, _)
AfterSyncs(c, items, n) ==
    IF n = 0 THEN returnEarly(c, "")
    ELSE syncNAD(AfterSyncs(c, items, n - 1), items[n].key, items[n].nad)

\* the step is the syncAll call
SyncAllStep == pass'.called /\ ~pass.called

-----------------------------------------------------------------------------
(* C17: syncAll hands the listed declarations to syncNAD strictly in listing   *)
(* order; a listing failure returns an error before any declaration is         *)
(* processed; a declaration from which no key can be derived is skipped and    *)
(* nothing else is; the first error that syncNAD returns ends the pass and is  *)
(* returned, and no later declaration of the listing is processed.             *)
SyncAllInOrder ==
    [][SyncAllStep =>
          LET keyed == SelectSeq(pass'.listing, HasKey)
              processed == pass'.processed
              n == Len(pass'.processed)
          IN  /\ pass'.fail =>
                     /\ pass'.err = "list" /\ processed = <<>>
                     /\ UNCHANGED <<nads, primaryNADs, networks>>
              /\ ~pass'.fail =>
                     /\ n <= Len(keyed) /\ processed = SubSeq(keyed, 1, n)
                     /\ \A i \in 0..(n - 1) : AfterSyncs(ctrl, keyed, i).err = ""
                     /\ pass'.err = AfterSyncs(ctrl, keyed, n).err
                     /\ pass'.err = "" => n = Len(keyed)
                     /\ nads' = AfterSyncs(ctrl, keyed, n).nads
                     /\ primaryNADs' = AfterSyncs(ctrl, keyed, n).primaryNADs
                     /\ networks' = AfterSyncs(ctrl, keyed, n).networks]_vars

\* of three listed declarations the second made syncNAD return an error: the
\* pass returned it and the third declaration was not processed, its key is
\* not tracked
SyncAllInOrderWitness ==
    /\ pass.called /\ ~pass.fail /\ pass.err # ""
    /\ Len(pass.listing) = 3 /\ Len(pass.processed) = 2
    /\ \A i \in DOMAIN pass.listing : HasKey(pass.listing[i]) /\ pass.listing[i].nad.valid
    /\ nads[pass.listing[3].key] = ""

-----------------------------------------------------------------------------
(* C18: a malformed declaration is inert.  When the declaration handed to      *)
(* syncNAD does not parse, syncNAD returns nil, calls neither EnsureNetwork    *)
(* nor DeleteNetwork, and leaves nads, primaryNADs and the reference set of    *)
(* every network as they were: a key that was tracked stays bound to its       *)
(* network and stays in that network's reference set.                          *)
MalformedIsInert ==
    [][(SyncStep /\ last'.nad \in BadNADs) =>
          /\ last'.err = ""
          /\ last'.calls = <<>>
          /\ UNCHANGED <<nads, primaryNADs, networks>>
          /\ nads[last'.key] # "" =>
                 /\ nads'[last'.key] = nads[last'.key]
                 /\ Registered(nads[last'.key]) =>
                        last'.key \in GetNADs(networks'[nads[last'.key]])]_vars

\* a tracked key, the primary NAD of its namespace, was synced with a
\* declaration that does not parse: it is still bound to its network, still
\* the primary NAD, and still referenced by the network
MalformedIsInertWitness ==
    /\ last.op = "syncNAD" /\ last.nad \in BadNADs
    /\ last.was # "" /\ nads[last.key] = last.was
    /\ primaryNADs[last.key[1]] = last.key
    /\ Registered(last.was) /\ last.key \in GetNADs(networks[last.was])

-----------------------------------------------------------------------------
(* Vocabulary of the properties of a sync that is tried again. *)

\* the key of this sync was rejected for a mismatch with the network its
\* declaration named, every key that referenced the network has since been
\* synced as deleted, and the key is synced again with the same declaration
RetriedAfterDeletions ==
    /\ ~rejected[last'.key].nil
    /\ last'.nad = rejected[last'.key]
    /\ ReferencingKeys(last'.nad.name) \ {last'.key} = {}

\* the key of this sync was rejected for a mismatch with the network its
\* declaration named, and is synced again with a declaration of the same name
\* that carries the configuration of the registered network
RetriedWithEqualConfig ==
    /\ ~rejected[last'.key].nil
    /\ ~last'.nad.nil /\ last'.nad.valid
    /\ last'.nad.name = rejected[last'.key].name
    /\ Registered(last'.nad.name)
    /\ last'.nad.conf = networks[last'.nad.name].conf

\* this sync returned nil and left its key bound to the network of its
\* declaration
BindsKey ==
    /\ last'.err = ""
    /\ nads'[last'.key] = last'.nad.name
    /\ last'.nad.name \in DOMAIN networks'
    /\ last'.key \in GetNADs(networks'[last'.nad.name])

\* the declaration of this sync is a primary network's and another key is
\* recorded as the primary NAD of the namespace of its key
OtherPrimaryRecorded ==
    /\ RoleOf(last'.nad.conf) = "primary"
    /\ primaryNADs[last'.key[1]] \notin {NoKey, last'.key}

JoinedAfterRejection ==
    /\ last.op = "syncNAD"
    /\ ~retried.nil /\ last.nad.name = retried.name /\ last.nad.conf # retried.conf
    /\ last.err = ""
    /\ nads[last.key] = retried.name
    /\ Cardinality(GetNADs(networks[retried.name])) > 1

\* a key that was rejected for a mismatch was synced again with the
\* configuration of the network and was rejected by the primary NAD guard
GuardedAfterRejection ==
    /\ last.op = "syncNAD"
    /\ ~retried.nil /\ last.nad.name = retried.name /\ last.nad.conf # retried.conf
    /\ last.err = "primary"

-----------------------------------------------------------------------------
(* Vocabulary of the properties of a deletion. *)

\* the primary NAD entries after the deletion of the key: the entry of the
\* namespace of the key is cleared if and only if it held the key
PrimaryWithout(key) ==
    [ns \in Namespaces |->
        IF ns = key[1] /\ primaryNADs[ns] = key THEN NoKey ELSE primaryNADs[ns]]

\* the registry after the key left the reference set of the network: the
\* network is gone when no reference remains, and holds the reduced
\* reference set otherwise
RegistryWithout(key, name) ==
    IF GetNADs(networks[name]) \ {key} = {}
    THEN [n \in DOMAIN networks \ {name} |-> networks[n]]
    ELSE [networks EXCEPT ![name].nads = @ \ {key}]

\* the one network manager call of the deletion of the key
CallWithout(key, name) ==
    IF GetNADs(networks[name]) \ {key} = {}
    THEN << <<"DeleteNetwork", name>> >>
    ELSE << <<"EnsureNetwork", name>> >>

(* C20: deletion.  syncNAD(key, nil) for a tracked key removes the key from    *)
(* nads, clears the primary NAD entry of the namespace of the key if and only  *)
(* if it held the key, removes the key from the reference set of the network   *)
(* it was bound to, calls DeleteNetwork for that network when no reference     *)
(* remains and EnsureNetwork with the reduced reference set otherwise, and     *)
(* returns nil.  For an untracked key it changes nothing and makes no network  *)
(* manager call.                                                               *)
DeletionOfKey ==
    [][(SyncStep /\ last'.nad.nil) =>
          LET key == last'.key
              name == nads[key]
          IN  /\ last'.err = ""
              /\ name = "" =>
                     /\ UNCHANGED <<nads, primaryNADs, networks>>
                     /\ last'.calls = <<>>
              /\ name # "" =>
                     /\ Registered(name)
                     /\ key \in GetNADs(networks[name])
                     /\ nads' = [nads EXCEPT ![key] = ""]
                     /\ primaryNADs' = PrimaryWithout(key)
                     /\ networks' = RegistryWithout(key, name)
                     /\ last'.calls = CallWithout(key, name)]_vars

\* a tracked key, the primary NAD of its namespace, was synced as deleted
\* while another key referenced its network: the key is untracked, the primary
\* NAD entry is cleared, and the network was ensured without the key
DeletionOfKeyWitness ==
    /\ last.op = "syncNAD" /\ last.nad.nil
    /\ last.was # ""
    /\ nads[last.key] = ""
    /\ primaryNADs[last.key[1]] = NoKey
    /\ last.calls = << <<"EnsureNetwork", last.was>> >>
    /\ Registered(last.was)
    /\ last.key \notin GetNADs(networks[last.was])
    /\ GetNADs(networks[last.was]) # {}

\* the last key of a network was synced as deleted and the network is gone
LastReferenceDeleted ==
    /\ last.op = "syncNAD" /\ last.nad.nil
    /\ last.was # ""
    /\ last.calls = << <<"DeleteNetwork", last.was>> >>
    /\ ~Registered(last.was)

\* an untracked key was synced as deleted while networks were registered
UntrackedDeleted ==
    /\ last.op = "syncNAD" /\ last.nad.nil
    /\ last.was = ""
    /\ last.calls = <<>>
    /\ DOMAIN networks # {}

-----------------------------------------------------------------------------
(* Vocabulary of the properties of a network recreated in place. *)

\* the key of this sync is the only key referencing the registered network
\* its declaration names, and the declaration carries another configuration
SoleReferencerIncompatible ==
    /\ ~last'.nad.nil /\ last'.nad.valid
    /\ Registered(last'.nad.name)
    /\ networks[last'.nad.name].conf # last'.nad.conf
    /\ GetNADs(networks[last'.nad.name]) = {last'.key}

\* this sync returned nil, called DeleteNetwork and then EnsureNetwork for the
\* network of its declaration, and left it registered with the configuration
\* of the declaration and its key as the only reference
RecreatedInPlace ==
    /\ last'.err = ""
    /\ last'.calls = << <<"DeleteNetwork", last'.nad.name>>, <<"EnsureNetwork", last'.nad.name>> >>
    /\ last'.nad.name \in DOMAIN networks'
    /\ networks'[last'.nad.name].conf = last'.nad.conf
    /\ GetNADs(networks'[last'.nad.name]) = {last'.key}

\* a network registered before and after this step has another configuration
ConfigurationChanged(name) ==
    /\ name \in DOMAIN networks /\ name \in DOMAIN networks'
    /\ networks'[name].conf # networks[name].conf

\* no configuration of a registered network changes in this step, except of
\* the network that a sync of its only referencing key recreates
ChangedOnlyByRecreate ==
    \A name \in NetNames :
        ConfigurationChanged(name) =>
            /\ SyncStep /\ last'.nad.name = name
            /\ SoleReferencerIncompatible /\ RecreatedInPlace

\* C21 as stated. Recreate-in-place: when key k is the only key referencing
\* network N and k is synced with an incompatible configuration of the same
\* name, the sync succeeds, calls DeleteNetwork(N) before EnsureNetwork of the
\* newly parsed network, and ends with N registered with the new configuration
\* and reference set {k}; in every other case the configuration of a
\* registered network stays what it was.
RecreateAlwaysSucceeds ==
    [][/\ (SyncStep /\ SoleReferencerIncompatible) => RecreatedInPlace
       /\ ChangedOnlyByRecreate]_vars

\* C21 as amended. When key k is the only key referencing network N and k is
\* synced with an incompatible configuration of the same name, the sync
\* succeeds, calls DeleteNetwork(N) before EnsureNetwork of the newly parsed
\* network, and ends with N registered with the new configuration and
\* reference set {k}, unless the new configuration is a primary network's and
\* another key is recorded as the primary NAD of the namespace of k: then the
\* sync returns the primary NAD error, makes no call and changes nothing.  In
\* every other case the configuration of a registered network stays what it
\* was.
RecreateInPlace ==
    [][/\ (SyncStep /\ SoleReferencerIncompatible /\ ~OtherPrimaryRecorded) => RecreatedInPlace
       /\ (SyncStep /\ SoleReferencerIncompatible /\ OtherPrimaryRecorded) =>
              /\ last'.err = "primary" /\ last'.calls = <<>>
              /\ UNCHANGED <<nads, primaryNADs, networks>>
       /\ ChangedOnlyByRecreate]_vars

\* the only key of a network was synced with another configuration of the
\* same name: the network was deleted and ensured anew, with that key alone
RecreateInPlaceWitness ==
    /\ last.op = "syncNAD" /\ last.err = ""
    /\ ~last.nad.nil /\ last.was = last.nad.name
    /\ last.calls = << <<"DeleteNetwork", last.was>>, <<"EnsureNetwork", last.was>> >>
    /\ Registered(last.was)
    /\ networks[last.was].conf = last.nad.conf
    /\ GetNADs(networks[last.was]) = {last.key}

-----------------------------------------------------------------------------
DetachedFromSameName ==
    /\ last.op = "syncNAD" /\ last.err = "mismatch"
    /\ last.was = last.nad.name
    /\ last.calls = << <<"EnsureNetwork", last.was>> >>
    /\ last.key \notin GetNADs(networks[last.was])

-----------------------------------------------------------------------------
(* Vocabulary of the properties of a successful sync, step by step. *)

\* this step ends a syncNAD call that was given a parsable declaration and
\* returns nil
ReturnsNil ==
    /\ worker.pc \in LockedPCs /\ ~worker.nad.nil
    /\ worker'.pc = "idle" /\ worker'.err = ""

\* the primary NAD entries a successful sync of the key leaves, from the
\* entries as they were when the call began
PrimaryTracked(before, key, target) ==
    [ns \in Namespaces |->
        IF ns # key[1] THEN before[ns]
        ELSE IF RoleOf(target.conf) = "primary" THEN key
        ELSE IF before[ns] = key THEN NoKey
        ELSE before[ns]]

\* the removal from the old network makes no EnsureNetwork call for the
\* network the call is going to ensure
OldIsNotTarget ==
    worker.pc = "remove" /\ ~worker.ensureNetwork.nil /\ ~worker.oldNetwork.nil =>
        \/ worker.oldNetwork.name # worker.ensureNetwork.name
        \/ GetNADs(worker.oldNetwork) \ {worker.key} = {}

(* C23: always ensure on success.  Every syncNAD call that is given a          *)
(* parsable declaration and returns nil calls EnsureNetwork exactly once for   *)
(* the target network, as its last network manager call and after nads[key]    *)
(* and primaryNADs were updated, even when the key was already bound to that   *)
(* network with an equal configuration; the primary NAD entry of the namespace *)
(* is set to the key if the target is primary and cleared if the key was the   *)
(* recorded primary NAD and the target is not primary.                         *)
AlwaysEnsureOnSuccess ==
    [][/\ OldIsNotTarget
       /\ ReturnsNil =>
              LET key == worker.key
                  target == worker.ensureNetwork
              IN  /\ worker.pc = "ensure"
                  /\ target.name = worker.nad.name /\ key \in GetNADs(target)
                  /\ registry.nads[key] = target.name
                  /\ registry.nads = [stable.nads EXCEPT ![key] = target.name]
                  /\ registry.primaryNADs = PrimaryTracked(stable.primaryNADs, key, target)
                  /\ registry'.nads = registry.nads
                  /\ registry'.primaryNADs = registry.primaryNADs
                  /\ target.name \in DOMAIN registry'.networks
                  /\ registry'.networks[target.name] = target
                  /\ \A n \in DOMAIN registry.networks \ {target.name} :
                         /\ n \in DOMAIN registry'.networks
                         /\ registry'.networks[n] = registry.networks[n]]_vars

\* a key that was bound to a network, and was the primary NAD of its
\* namespace, is in its second sync with the same declaration, about to
\* ensure the registered network again
AlwaysEnsureOnSuccessWitness ==
    /\ worker.pc = "ensure"
    /\ stable.nads[worker.key] = worker.nad.name
    /\ stable.primaryNADs[worker.key[1]] = worker.key
    /\ worker.nad.name \in DOMAIN stable.networks
    /\ stable.networks[worker.nad.name].conf = worker.nad.conf
    /\ registry = stable
    /\ worker.ensureNetwork = stable.networks[worker.nad.name]

\* a key that was the primary NAD of its namespace is in a sync with a
\* secondary network and its primary NAD entry is already cleared
PrimaryClearedBeforeEnsure ==
    /\ worker.pc = "ensure"
    /\ stable.primaryNADs[worker.key[1]] = worker.key
    /\ registry.primaryNADs[worker.key[1]] = NoKey

-----------------------------------------------------------------------------
(* Vocabulary of the properties of load balancer names. *)

\* no two load balancers of the desired list carry the same name
DistinctNames(LBs) == \A i, j \in DOMAIN LBs : LBs[i].Name = LBs[j].Name => i = j

\* no two rows of the database that match the tag carry the same name
UniqueUnderTag(db, externalIDs) ==
    NoCollision(FindLoadBalancersByExternalIDs(db, externalIDs))

(* C24: name uniqueness under serialization.  From a store in which the names  *)
(* are unique among the rows matching a tag, every serialized call of          *)
(* EnsureLBs with that tag and a desired list of pairwise distinct names       *)
(* leaves the names unique among the rows matching the tag, whether it commits *)
(* or fails.                                                                   *)
NameUniqueness ==
    [][(/\ EnsureLBsStep
        /\ DistinctNames(lastLB'.LBs)
        /\ UniqueUnderTag(nb, lastLB'.externalIDs))
          => UniqueUnderTag(nb', lastLB'.externalIDs)]_vars

\* the first owner, whose rows carried distinct names, asked for "A" and "B":
\* the call returned nil, updated the row it had, created the other, deleted
\* none, and the tag has two rows of distinct names
NameUniquenessWitness ==
    /\ lastLB.called /\ lastLB.err = "" /\ lastLB.externalIDs = FirstOwner
    /\ Len(lastLB.LBs) = 2 /\ DistinctNames(lastLB.LBs)
    /\ Cardinality(lastLB.updated) = 1 /\ lastLB.created = 1 /\ lastLB.deleted = {}
    /\ Cardinality(FindLoadBalancersByExternalIDs(nb, FirstOwner)) = 2
    /\ UniqueUnderTag(nb, FirstOwner)

-----------------------------------------------------------------------------
(* Vocabulary of the two callers with the same tag. *)

\* both callers have returned
RaceOver == \A p \in Racers : racers[p].pc = "done"

\* one caller read the rows of the tag after the other had committed: the
\* two calls were serialized
Serialized == \E p \in Racers : racers[p].serial

\* the names that both callers desire and that no row of the tag carried
\* when they entered
RacedNames ==
    {name \in LBNames :
        /\ \A p \in Racers : Wanting(racers[p].LBs, name) # {}
        /\ Named(FindLoadBalancersByExternalIDs(start, FirstOwner), name) = {}}

\* the rows of the tag that carry the name
RowsNamed(name) == Named(FindLoadBalancersByExternalIDs(nb, FirstOwner), name)

(* C25: same-tag race.  EnsureLBs takes no lock: when two calls with the same  *)
(* tag that desire the same name, which no row carries yet, both read the      *)
(* existing rows before either commits, both create a row and the database     *)
(* ends with two rows of that name under the tag.  When the two calls are      *)
(* serialized, one reading the rows after the commit of the other, a database  *)
(* with unique names under the tag ends with unique names, one row per raced   *)
(* name.                                                                       *)
SameTagRace ==
    (RaceOver /\ UniqueUnderTag(start, FirstOwner)) =>
        /\ (~Serialized /\ \A p \in Racers : racers[p].err = "") =>
               \A name \in RacedNames :
                   /\ \A p \in Racers :
                          \A i \in DOMAIN racers[p].found : racers[p].found[i].Name # name
                   /\ Cardinality(RowsNamed(name)) = 2
        /\ Serialized =>
               /\ UniqueUnderTag(nb, FirstOwner)
               /\ (\A p \in Racers : racers[p].err = "") =>
                      \A name \in RacedNames : Cardinality(RowsNamed(name)) = 1

\* both callers asked for "A" in an empty database, both read the rows before
\* either committed, both returned nil, and the tag has two rows named "A"
SameTagRaceWitness ==
    /\ RaceOver /\ ~Serialized
    /\ start.LoadBalancer = <<>>
    /\ \A p \in Racers :
           /\ racers[p].err = "" /\ racers[p].found = <<>>
           /\ racers[p].LBs = <<LB("A", FirstOwner, Attached)>>
    /\ Cardinality(RowsNamed("A")) = 2
    /\ ~UniqueUnderTag(nb, FirstOwner)

\* both callers asked for "A" in an empty database, one after the other, and
\* the tag has one row named "A"
SerializedCallsWitness ==
    /\ RaceOver /\ Serialized
    /\ start.LoadBalancer = <<>>
    /\ \A p \in Racers :
           racers[p].err = "" /\ racers[p].LBs = <<LB("A", FirstOwner, Attached)>>
    /\ Cardinality(RowsNamed("A")) = 1

-----------------------------------------------------------------------------
(* Vocabulary of the properties of the built row. *)

\* "true" or "false"
BoolString(b) == IF b THEN "true" ELSE "false"

\* the protocols in lower case
LowerCased == [TCP |-> "tcp", Tcp |-> "tcp", udp |-> "udp"]

\* the targets of a rule, separated by commas, in the order of the rule
RECURSIVE CommaSeparated(_)
CommaSeparated(targets) ==
    IF targets = <<>> THEN ""
    ELSE IF Len(targets) = 1 THEN targets[1]
    ELSE CommaSeparated(SubSeq(targets, 1, Len(targets) - 1)) \o "," \o targets[Len(targets)]

\* the last rule of the list with the source
LastRuleOf(rules, source) ==
    rules[CHOOSE i \in DOMAIN rules :
              /\ rules[i].Source = source
              /\ \A j \in DOMAIN rules : rules[j].Source = source => j <= i]

(* C26: row encoding in buildLB.  The options are reject, event and skip_snat, *)
(* each "true" or "false": reject is "true" and event "false" unless Unidling  *)
(* is set, and then reject is "false" and event "true", so the two are never   *)
(* equal; skip_snat is "true" iff SkipSNAT is set.  The selection fields are   *)
(* ip_src and ip_dst iff Affinity is set and empty otherwise.  The protocol is *)
(* in lower case.  The VIP map has one entry per distinct source of the rules, *)
(* which maps to the targets of the last rule with that source, joined by      *)
(* commas in the order of the rule.                                            *)
RowEncoding ==
    encoding.called =>
        LET lb == encoding.lb
            row == encoding.row
        IN  /\ DOMAIN row.Options = {"reject", "event", "skip_snat"}
            /\ \A o \in DOMAIN row.Options : row.Options[o] \in {"true", "false"}
            /\ row.Options.reject = BoolString(~lb.Opts.Unidling)
            /\ row.Options.event = BoolString(lb.Opts.Unidling)
            /\ row.Options.reject # row.Options.event
            /\ row.Options.skip_snat = BoolString(lb.Opts.SkipSNAT)
            /\ row.SelectionFields = IF lb.Opts.Affinity THEN <<"ip_src", "ip_dst">> ELSE <<>>
            /\ row.Protocol = LowerCased[lb.Protocol]
            /\ DOMAIN row.Vips = {lb.Rules[i].Source : i \in DOMAIN lb.Rules}
            /\ \A source \in DOMAIN row.Vips :
                   row.Vips[source] = CommaSeparated(LastRuleOf(lb.Rules, source).Targets)
            /\ row.Name = lb.Name /\ row.ExternalIDs = lb.ExternalIDs

\* a row was built for a load balancer with unidling and affinity, a protocol
\* in mixed case and two rules of one source: the VIP map has the one entry
\* of the second rule, with its two targets
RowEncodingWitness ==
    /\ encoding.called
    /\ encoding.lb.Opts = [Unidling |-> TRUE, Affinity |-> TRUE, SkipSNAT |-> FALSE]
    /\ encoding.lb.Protocol = "Tcp"
    /\ Len(encoding.lb.Rules) = 2
    /\ encoding.lb.Rules[1].Source = encoding.lb.Rules[2].Source
    /\ encoding.lb.Rules[1].Targets = <<"10.1.0.1:8080">>
    /\ encoding.lb.Rules[2].Targets = <<"10.1.0.2:8080", "10.1.0.1:8080">>
    /\ encoding.row.Vips = ("10.0.0.1:80" :> "10.1.0.2:8080,10.1.0.1:8080")
    /\ encoding.row.Protocol = "tcp"
    /\ encoding.row.Options = [reject |-> "false", event |-> "true", skip_snat |-> "false"]

-----------------------------------------------------------------------------
(* The bulk operations. *)

\* a step of one of the two bulk operations
BulkStepOf(op) == lastBulk'.op = op /\ ~lastLB'.called /\ <<lbVars, bulkVars>>' # <<lbVars, bulkVars>>

\* the rows and references of the database outside the listed UUIDs are as before
OthersKept(before, after, uuids) ==
    /\ \A u \in DOMAIN before.LoadBalancer \ uuids :
           u \in DOMAIN after.LoadBalancer /\ after.LoadBalancer[u] = before.LoadBalancer[u]
    /\ DOMAIN after.LoadBalancer \subseteq DOMAIN before.LoadBalancer

\* every listed VIP is gone from its load balancer, nothing else of a row changed
VIPsRemoved(before, after, toRemove) ==
    /\ DOMAIN after.LoadBalancer = DOMAIN before.LoadBalancer
    /\ \A u \in DOMAIN before.LoadBalancer :
           LET listed == UNION {Range(toRemove[i].VIPs) : i \in {j \in DOMAIN toRemove : toRemove[j].LBUUID = u}}
           IN  /\ DOMAIN after.LoadBalancer[u].Vips = DOMAIN before.LoadBalancer[u].Vips \ listed
               /\ \A v \in DOMAIN after.LoadBalancer[u].Vips :
                      after.LoadBalancer[u].Vips[v] = before.LoadBalancer[u].Vips[v]
               /\ [after.LoadBalancer[u] EXCEPT !.Vips = <<>>] = [before.LoadBalancer[u] EXCEPT !.Vips = <<>>]
    /\ after.LogicalSwitch = before.LogicalSwitch
    /\ after.LogicalRouter = before.LogicalRouter
    /\ after.LoadBalancerGroup = before.LoadBalancerGroup

\* C27: DeleteLBs commits one transaction after which no listed row exists or
\* is attached to a switch, router or group, and with an empty list it touches
\* the store not at all and returns nil, whatever the client would answer;
\* DeleteLoadBalancerVIPs removes every listed VIP of every listed load balancer
\* in one transaction or, on a failure, none of them; and the same call once
\* more leaves the store as the first call left it.
BulkOperations ==
    [][/\ BulkStepOf("DeleteLBs") =>
            /\ lastBulk'.uuids = <<>> =>
                   lastBulk'.err = "" /\ lastBulk'.transactions = 0 /\ nb' = nb
            /\ lastBulk'.uuids # <<>> => lastBulk'.transactions = 1
            /\ lastBulk'.err = "" =>
                   /\ \A u \in Range(lastBulk'.uuids) :
                          u \notin DOMAIN nb'.LoadBalancer /\ Detached(nb', u)
                   /\ OthersKept(nb, nb', Range(lastBulk'.uuids))
                   /\ DeleteLBs(nb', lastBulk'.uuids, "").db = nb'
            /\ lastBulk'.err # "" => nb' = nb
       /\ BulkStepOf("DeleteLoadBalancerVIPs") =>
            /\ lastBulk'.transactions <= 1
            /\ lastBulk'.err = "" =>
                   /\ lastBulk'.transactions = 1
                   /\ VIPsRemoved(nb, nb', lastBulk'.toRemove)
                   /\ DeleteLoadBalancerVIPs(nb', lastBulk'.toRemove, "").db = nb'
            /\ lastBulk'.err # "" => nb' = nb]_vars

\* a call that listed two entries removed one VIP of one load balancer and
\* both VIPs of another
BulkOperationsWitness ==
    /\ lastBulk.op = "DeleteLoadBalancerVIPs" /\ lastBulk.err = ""
    /\ Len(lastBulk.toRemove) = 2
    /\ lastBulk.toRemove[1].LBUUID # lastBulk.toRemove[2].LBUUID
    /\ \E u \in DOMAIN nb.LoadBalancer : Cardinality(DOMAIN nb.LoadBalancer[u].Vips) = 1
    /\ \E u \in DOMAIN nb.LoadBalancer : DOMAIN nb.LoadBalancer[u].Vips = {}

\* the listed UUIDs were deleted and another load balancer is still attached
DeletedByUUID ==
    /\ lastBulk.op = "DeleteLBs" /\ lastBulk.err = "" /\ lastBulk.uuids # <<>>
    /\ \E u \in DOMAIN nb.LoadBalancer : ~Detached(nb, u)
    /\ Cardinality(DOMAIN nb.LoadBalancer) = 1

-----------------------------------------------------------------------------
(* The reference sets of the registered networks. *)

\* C28. Exact reference sets: after any sequence of syncNAD calls the reference
\* set of every registered network is exactly the set of keys that nads binds
\* to it, and every tracked key is bound to a registered network: no network
\* holds a key that is untracked or bound to another network.
ExactReferenceSets ==
    /\ \A name \in NetNames :
           Registered(name) => GetNADs(networks[name]) = ReferencingKeys(name)
    /\ \A k \in Keys : nads[k] /= "" => Registered(nads[k])

\* a key that was bound to one network was rejected by the other, which two
\* keys reference: it is untracked and neither network refers to it
ExactReferenceSetsWitness ==
    /\ last.op = "syncNAD"
    /\ last.err = "mismatch"
    /\ last.was /= ""
    /\ last.was /= last.nad.name
    /\ nads[last.key] = ""
    /\ Registered(last.nad.name)
    /\ Cardinality(ReferencingKeys(last.nad.name)) = 2
    /\ ~Registered(last.was)

-----------------------------------------------------------------------------
(* The call of EnsureLBs that follows a successful call with its arguments. *)

\* what EnsureLBs builds and returns for the arguments of a call on a database
\* that no one changed since the call returned
Repeats(db, call) ==
    {[r |-> EnsureLBs(db, existing, call.LBs, ""),
      built |-> built(db, existing, call.LBs, "")] :
        existing \in Orderings(FindLoadBalancersByExternalIDs(db, call.externalIDs))}

\* the repeated call only updates the rows of the tag, under their UUIDs
OnlyUpdates(db, call, repeat) ==
    /\ repeat.built.created = 0
    /\ repeat.built.deleted = {}
    /\ repeat.built.attaches = 0
    /\ repeat.built.detaches = 0
    /\ repeat.built.updated =
           {row.UUID : row \in FindLoadBalancersByExternalIDs(db, call.externalIDs)}
    /\ Cardinality(repeat.built.updated) = Len(call.LBs)

\* C29: EnsureLBs idempotence.  A second call of EnsureLBs right after a call
\* that returned nil, with the same tag and the same desired list (names
\* distinct, every desired load balancer carrying the tag), builds no creation,
\* no deletion, no attach and no detach, only updates of the matched rows under
\* their UUIDs, and leaves the database as it is.
EnsureLBsIdempotence ==
    [][(/\ EnsureLBsStep
        /\ lastLB'.called
        /\ lastLB'.err = ""
        /\ WellFormedCall(lastLB')) =>
            \A repeat \in Repeats(nb', lastLB') :
                /\ OnlyUpdates(nb', lastLB', repeat)
                /\ repeat.r.err = ""
                /\ repeat.r.db = nb']_vars

\* a call that created a row, deleted one and changed attachments returned nil
\* for two desired load balancers
EnsureLBsIdempotenceWitness ==
    /\ lastLB.called /\ lastLB.err = "" /\ WellFormedCall(lastLB)
    /\ Len(lastLB.LBs) = 2
    /\ lastLB.created = 1
    /\ Cardinality(lastLB.updated) = 1
    /\ lastLB.attaches > 0
    /\ lastLB.detaches > 0
    /\ \A repeat \in Repeats(nb, lastLB) : OnlyUpdates(nb, lastLB, repeat)

-----------------------------------------------------------------------------
(* Rows that share a name, however many. *)

\* the names that two or more rows of a set carry
SharedNames(rows) == {row.Name : row \in {r \in rows : Cardinality(Named(rows, r.Name)) >= 2}}

UUIDsOf(rows) == {row.UUID : row \in rows}

\* the desired load balancers that the operations create under a name
CreatedNamed(ops, name) == {j \in DOMAIN ops.newlbs : ops.newlbs[j].Name = name}

\* the desired load balancers that the operations update under a name
UpdatedNamed(ops, name) == {j \in DOMAIN ops.existinglbs : ops.existinglbs[j].Name = name}

\* every row that shares the name is deleted, none is updated, and at most one
\* row is created under the name
NoneSurvives(ops, sharing, name) ==
    /\ UUIDsOf(sharing) \subseteq ops.toDelete
    /\ \A j \in DOMAIN ops.existinglbs : ops.existinglbs[j].UUID \notin UUIDsOf(sharing)
    /\ Cardinality(CreatedNamed(ops, name)) <= 1

\* the row of the name that the lookup returned last
LastNamed(existing, name) ==
    existing[CHOOSE i \in DOMAIN existing :
                 /\ existing[i].Name = name
                 /\ \A j \in DOMAIN existing : existing[j].Name = name => j <= i]

\* the rows of the name cancel in pairs: of an even number none is left and
\* every desired load balancer of the name is created; of an odd number the
\* row returned last is left, to be updated by every desired load balancer of
\* the name, or deleted with the others when the name is not desired
CancelInPairs(ops, existing, LBs, sharing, name) ==
    IF Cardinality(sharing) % 2 = 0
    THEN /\ UUIDsOf(sharing) \subseteq ops.toDelete
         /\ UpdatedNamed(ops, name) = {}
         /\ Cardinality(CreatedNamed(ops, name)) = Cardinality(Wanting(LBs, name))
    ELSE /\ CreatedNamed(ops, name) = {}
         /\ Cardinality(UpdatedNamed(ops, name)) = Cardinality(Wanting(LBs, name))
         /\ \A j \in UpdatedNamed(ops, name) :
                ops.existinglbs[j].UUID = LastNamed(existing, name).UUID
         /\ UUIDsOf(sharing) \ ops.toDelete =
                IF Wanting(LBs, name) = {} THEN {} ELSE {LastNamed(existing, name).UUID}

-----------------------------------------------------------------------------
(* The networks map of NADController after a call. *)

\* the latest call of NADController.syncNAD was given a declaration that
\* parses and returned nil
MapSyncedParsable ==
    /\ mapLast.key /= NoKey
    /\ ~mapLast.nad.nil
    /\ ~ParseNADInfo(mapLast.nad).err
    /\ mapLast.err = ""

\* the key's network is in the networks map, is the network handed to
\* EnsureNetwork, and lists the key
MapHoldsEnsured(key) ==
    /\ mapNads[key] \in DOMAIN mapNetworks
    /\ ~mapNetworks[mapNads[key]].nil
    /\ mapNads[key] \in DOMAIN mapManager
    /\ mapNetworks[mapNads[key]] = mapManager[mapNads[key]]
    /\ key \in GetNADs(mapNetworks[mapNads[key]])

\* the networks map has no entry under the empty name and none that is nil
NoEmptyEntry == \A name \in DOMAIN mapNetworks : name /= "" /\ ~mapNetworks[name].nil

\* the latest call replaced, under its name, a network that the key alone
\* referenced by one of another configuration
MapRecreated ==
    /\ MapSyncedParsable
    /\ mapLast.was = mapLast.nad.name
    /\ mapLast.calls = << <<"DeleteNetwork", mapLast.nad.name>>,
                          <<"EnsureNetwork", mapLast.nad.name>> >>

\* C31. Registry after recreate in the controller that keeps its own networks
\* map: after every syncNAD call that is given a parsable declaration and
\* returns nil, networks[nads[key]] is present, is the network handed to
\* EnsureNetwork and lists the key, also when the call recreated a network that
\* the key alone referenced; and the networks map never holds an entry under
\* the empty name or a nil entry.
RegistryAfterRecreate ==
    /\ MapSyncedParsable => MapHoldsEnsured(mapLast.key)
    /\ NoEmptyEntry

\* the first half alone: the registry after a call with a parsable declaration
RegistryHoldsEnsured == MapSyncedParsable => MapHoldsEnsured(mapLast.key)

\* the second half alone, for a name that is not empty: no nil entry
NoNilEntryUnderName == \A name \in DOMAIN mapNetworks \ {""} : ~mapNetworks[name].nil

\* what the code does keep: every call with a parsable declaration that
\* returns nil and did not recreate the network leaves the key's network in the
\* map, equal to the one handed to EnsureNetwork and listing the key
RegistryUnlessRecreated ==
    (MapSyncedParsable /\ ~MapRecreated) => MapHoldsEnsured(mapLast.key)

\* a call recreated the network of its key, which the networks map has lost
RecreatedAndLost ==
    /\ MapRecreated
    /\ mapNads[mapLast.key] = mapLast.nad.name
    /\ mapLast.nad.name \notin DOMAIN mapNetworks
    /\ mapLast.nad.name \in DOMAIN mapManager

\* a deletion sync left a nil entry under the empty name
DeletionStoredNil ==
    /\ mapLast.key /= NoKey
    /\ mapLast.nad.nil
    /\ "" \in DOMAIN mapNetworks
    /\ mapNetworks[""].nil

====
